---------------------------- MODULE Spec2Model ----------------------------
(***************************************************************************)
(* Message broker and agent runtime of the FTBA multi-agent trading        *)
(* system (src/system/agent.py).                                           *)
(*                                                                         *)
(* The broker state is the five dictionaries/counters of MessageBroker;    *)
(* an asyncio.Queue is a sequence (put appends, get removes the head).     *)
(* The inboxes are unbounded queues, so "await queue.put(m)" never         *)
(* suspends: publish and publish_batch run to completion without yielding  *)
(* to the event loop, and each is one action.                              *)
(***************************************************************************)
EXTENDS Naturals, Integers, Sequences, FiniteSets, TLC

Agents == {"a1", "a2", "a3"}
Kinds == {"SYSTEM_STATUS", "TECHNICAL_SIGNAL"}

\* Bounds of the model.
MaxMessages == 2        \* Message objects constructed in one behaviour
MaxOrderMessages == 3   \* the same, in the behaviours of SpecOrder
MaxBatch == 2           \* length of the list handed to publish_batch
MaxTime == 1            \* clock readings 0..MaxTime
MaxStarts == 2          \* calls of setup() per agent
MaxLifeMessages == 2    \* Message objects constructed, in SpecLife
MaxTrickleTime == 2     \* clock readings 0..MaxTrickleTime, in SpecTrickle
MaxProposals == 2       \* trade_proposal messages Risk handles
MaxFlowTime == 2        \* clock readings 0..MaxFlowTime, in SpecWorkflow
MaxUpdates == 1         \* asset_availability_update messages
MaxRequests == 1        \* asset_availability_request messages
MaxResults == 2         \* trade_result messages handled
MaxCycleTime == 4       \* clock readings 0..MaxCycleTime, in SpecCycle
MaxPasses == 2          \* periodic passes per agent
MaxSignals == 1         \* correlated signals that qualify for a proposal

\* MessageBroker(cache_timeout=...), in clock units.
cache_timeout == 1

\* MessageBroker(batch_size=10), the default.
default_batch_size == 10

\* Agent._batch_interval (0.1 s): the clock unit.
batch_interval == 1

\* The batch sizes of SpecAgent: 1 turns batching off.
BatchSizes == {1, 2}

VARIABLES
    subscribers,          \* self.subscribers: message_type -> set of agent ids
    queues,               \* self.queues: agent_id -> asyncio.Queue
    message_counter,      \* self.message_counter
    subscribers_cache,    \* self._subscribers_cache: message_type -> snapshot
    cache_timestamps,     \* self._cache_timestamps: message_type -> time
    now,                  \* datetime.utcnow()
    created,              \* history: number of Message objects constructed
    published,            \* history: uid -> the message with that uid and the
                          \* number of the broker call that published it
    batch_size,           \* self.batch_size (constructor argument)
    message_batch,        \* Agent._message_batch, per constructed agent
    last_batch_time,      \* Agent._last_batch_time, per constructed agent
    scheduled,            \* per agent, the wake-up times of its pending
                          \* _schedule_batch_send tasks
    running,              \* Agent.running, per constructed agent
    phase,                \* per agent, the start() / stop() call in progress
                          \* or the last one that ended
    loop,                 \* per agent, where its processing_task stands
    cancelling,           \* per agent: cancel() was called on the task and
                          \* CancelledError is not yet thrown into it
    processed,            \* per agent, messages_processed of _process_loop
    detached,             \* per agent, the contents of Agent.message_queue
                          \* once the broker has deleted that queue
    setups,               \* history: per agent, calls of setup()
    cleanups,             \* history: per agent, calls of cleanup()
    handled,              \* history: per agent, the messages passed to
                          \* handle_message, in order
    drained,              \* history: per agent, messages taken from the
                          \* inbox in the current loop iteration
    cycles,               \* history: per agent, calls of process_cycle in
                          \* the current loop iteration
    aborted,              \* history: per agent, hook invocations that
                          \* CancelledError ended midway
    outbox,               \* history: the messages the workflow agents handed
                          \* to send_message, in order
    evaluations,          \* history: per trade_proposal message Risk handled,
                          \* its proposal id and the decisions it emitted
    api_client,           \* TradeExecutionAgent.api_client
    approved_proposals,   \* TradeExecutionAgent.approved_proposals, a dict
                          \* in insertion order
    available_assets,     \* TradeExecutionAgent.available_assets
    recommended_assets,   \* TradeExecutionAgent.recommended_assets
    exec_read,            \* messages of the outbox Execution has taken
    asset_read,           \* messages of the outbox AssetSelection has taken
    received,             \* history: the approvals Execution handled
    attempts,             \* history: the calls of execute_trade
    balance,              \* RiskManagementAgent.account_balance
    daily_pnl,            \* RiskManagementAgent.daily_pnl
    open_positions,       \* RiskManagementAgent.open_positions, its keys
    active_trades,        \* StrategyOptimizationAgent.active_trades, its keys
    trades_count,         \* trades_count of the strategy's performance
    results,              \* history: the trade_result messages handled
    last_processed_time,  \* per periodic agent, last_processed_time
                          \* (AssetSelectionAgent: last_update_time)
    correlated_signals,   \* StrategyOptimizationAgent.correlated_signals,
                          \* the number of signals that qualify for a proposal
    passes                \* history: per periodic agent, the clock readings
                          \* at which a periodic pass started

agent_vars == <<batch_size, message_batch, last_batch_time, scheduled>>

life_vars == <<running, phase, loop, cancelling, processed, detached, setups,
               cleanups, handled, drained, cycles, aborted>>

flow_vars == <<outbox, evaluations, api_client, approved_proposals,
               available_assets, recommended_assets, exec_read, asset_read,
               received, attempts>>

desk_vars == <<balance, daily_pnl, open_positions, active_trades,
               trades_count, results, last_processed_time,
               correlated_signals, passes>>

vars == <<subscribers, queues, message_counter, subscribers_cache,
          cache_timestamps, now, created, published, agent_vars,
          life_vars, flow_vars, desk_vars>>

----------------------------------------------------------------------------
\* Finite sequences over S of length lo..hi.
SeqsUpTo(S, lo, hi) == UNION {[1..n -> S] : n \in lo..hi}

Range(s) == {s[i] : i \in DOMAIN s}

\* dict helpers: a dict is a function whose DOMAIN is its key set.
DictDel(d, k) == [x \in DOMAIN d \ {k} |-> d[x]]
DictSet(d, k, v) == [x \in DOMAIN d \cup {k} |-> IF x = k THEN v ELSE d[x]]

\* f"msg_{self.message_counter}"
get_next_message_id(counter) == <<"msg", counter>>

\* Message.__init__; uid stands for the identity of the Python object.
Message(uid, msg_id, msg_type, sender, recipients) ==
    [uid |-> uid, id |-> msg_id, type |-> msg_type, sender |-> sender,
     recipients |-> recipients]

----------------------------------------------------------------------------
\* MessageBroker: the operations as functions of the broker state b, a record
\* [subscribers, queues, message_counter, cache, cts].

Broker == [subscribers |-> subscribers, queues |-> queues,
           message_counter |-> message_counter,
           cache |-> subscribers_cache, cts |-> cache_timestamps]

\* Mutant of InvalidateCache: the snapshot is kept.
KeepCache(b, msg_type) == b

\* "if msg_type in self._subscribers_cache: del ...; if msg_type in
\* self._cache_timestamps: del ..."
InvalidateCache(b, msg_type) ==
    IF msg_type \in DOMAIN b.cache
    THEN [b EXCEPT !.cache = DictDel(b.cache, msg_type),
                   !.cts = DictDel(b.cts, msg_type)]
    ELSE b

\* Mutant of register_agent: a new queue on every call.
register_agent_fresh(b, agent_id) ==
    [b EXCEPT !.queues = DictSet(b.queues, agent_id, <<>>)]

register_agent(b, agent_id) ==
    IF agent_id \in DOMAIN b.queues
    THEN b
    ELSE [b EXCEPT !.queues = DictSet(b.queues, agent_id, <<>>)]

\* What register_agent returns: "return self.queues[agent_id]".
RegisterReturn(b, agent_id) == register_agent(b, agent_id).queues[agent_id]

\* Mutant of UnregisterFromType: the whole subscription set is cleared.
UnregisterFromTypeAll(b, agent_id, msg_type) ==
    IF agent_id \in b.subscribers[msg_type]
    THEN InvalidateCache([b EXCEPT !.subscribers[msg_type] = {}], msg_type)
    ELSE b

\* One pass of "for msg_type in self.subscribers" in unregister_agent.
UnregisterFromType(b, agent_id, msg_type) ==
    IF agent_id \in b.subscribers[msg_type]
    THEN InvalidateCache(
             [b EXCEPT !.subscribers[msg_type] = @ \ {agent_id}], msg_type)
    ELSE b

RECURSIVE UnregisterLoop(_, _, _)
UnregisterLoop(b, agent_id, types) ==
    IF types = {} THEN b
    ELSE LET t == CHOOSE x \in types : TRUE
         IN UnregisterLoop(UnregisterFromType(b, agent_id, t), agent_id,
                           types \ {t})

\* Mutant of unregister_agent: the inbox goes, the subscriptions stay.
unregister_agent_inbox_only(b, agent_id) ==
    [b EXCEPT !.queues = DictDel(b.queues, agent_id)]

unregister_agent(b, agent_id) ==
    LET b1 == IF agent_id \in DOMAIN b.queues
              THEN [b EXCEPT !.queues = DictDel(b.queues, agent_id)]
              ELSE b
    IN UnregisterLoop(b1, agent_id, DOMAIN b1.subscribers)

\* One pass of the loop of subscribe.
SubscribeType(b, agent_id, msg_type) ==
    LET old == IF msg_type \in DOMAIN b.subscribers
               THEN b.subscribers[msg_type] ELSE {}
        b1 == [b EXCEPT !.subscribers =
                   DictSet(b.subscribers, msg_type, old \cup {agent_id})]
    IN InvalidateCache(b1, msg_type)

RECURSIVE subscribe(_, _, _)
subscribe(b, agent_id, message_types) ==
    IF message_types = <<>> THEN b
    ELSE subscribe(SubscribeType(b, agent_id, Head(message_types)), agent_id,
                   Tail(message_types))

\* Mutant of UnsubscribeType: the cached snapshot survives the removal.
UnsubscribeTypeStale(b, agent_id, msg_type) ==
    IF msg_type \in DOMAIN b.subscribers /\ agent_id \in b.subscribers[msg_type]
    THEN [b EXCEPT !.subscribers[msg_type] = @ \ {agent_id}]
    ELSE b

\* One pass of the loop of unsubscribe.
UnsubscribeType(b, agent_id, msg_type) ==
    IF msg_type \in DOMAIN b.subscribers /\ agent_id \in b.subscribers[msg_type]
    THEN InvalidateCache(
             [b EXCEPT !.subscribers[msg_type] = @ \ {agent_id}], msg_type)
    ELSE b

RECURSIVE unsubscribe(_, _, _)
unsubscribe(b, agent_id, message_types) ==
    IF message_types = <<>> THEN b
    ELSE unsubscribe(UnsubscribeType(b, agent_id, Head(message_types)),
                     agent_id, Tail(message_types))

\* "msg_type in self._subscribers_cache and
\*  now - self._cache_timestamps.get(msg_type, 0) < self.cache_timeout"
CacheValid(b, msg_type, t, timeout) ==
    /\ msg_type \in DOMAIN b.cache
    /\ t - (IF msg_type \in DOMAIN b.cts THEN b.cts[msg_type] ELSE 0) < timeout

\* _get_subscribers_for_message_type: the set it returns and the broker state
\* it leaves (a rebuilt snapshot is stored with the time it was taken).
\* Returns [set, b].
_get_subscribers_for_message_type(b, msg_type, t, timeout) ==
    IF CacheValid(b, msg_type, t, timeout)
    THEN [set |-> b.cache[msg_type], b |-> b]
    ELSE LET subscriber_set == IF msg_type \notin DOMAIN b.subscribers
                               THEN {} ELSE b.subscribers[msg_type]
         IN [set |-> subscriber_set,
             b |-> [b EXCEPT !.cache = DictSet(b.cache, msg_type, subscriber_set),
                             !.cts = DictSet(b.cts, msg_type, t)]]

\* queue.put(message) for each element of a list of agent ids, in list order.
RECURSIVE PutEach(_, _, _)
PutEach(qs, ids, message) ==
    IF ids = <<>> THEN qs
    ELSE PutEach([qs EXCEPT ![Head(ids)] = Append(@, message)], Tail(ids),
                 message)

\* Mutant of DirectTargets: the sender is skipped, as on the broadcast path.
DirectTargetsNotSender(b, message) ==
    SelectSeq(message.recipients,
              LAMBDA r : r \in DOMAIN b.queues /\ r # message.sender)

\* "for recipient in message.recipients: if recipient in self.queues"
DirectTargets(b, message) ==
    SelectSeq(message.recipients, LAMBDA r : r \in DOMAIN b.queues)

\* Mutant of BroadcastTargets: the sender is not skipped.
BroadcastTargetsWithSender(b, message, subs) ==
    {agent_id \in subs : agent_id \in DOMAIN b.queues}

\* Mutant of BroadcastTargets: one subscriber only.
BroadcastTargetsFirst(b, message, subs) ==
    LET all == {agent_id \in subs :
                   agent_id # message.sender /\ agent_id \in DOMAIN b.queues}
    IN IF all = {} THEN {} ELSE {CHOOSE agent_id \in all : TRUE}

\* "for agent_id in subscribers:
\*      if agent_id != message.sender and agent_id in self.queues"
BroadcastTargets(b, message, subs) ==
    {agent_id \in subs :
        agent_id # message.sender /\ agent_id \in DOMAIN b.queues}

\* Mutant of PutAll: the message goes to the front of the queue.
PutAllFront(qs, ids, message) ==
    [a \in DOMAIN qs |-> IF a \in ids THEN <<message>> \o qs[a] ELSE qs[a]]

\* put(message) on the queue of every member of a set (one put per member;
\* the queues are distinct, so the iteration order of the set is immaterial).
PutAll(qs, ids, message) ==
    [a \in DOMAIN qs |-> IF a \in ids THEN Append(qs[a], message) ELSE qs[a]]

\* Mutant of publish: no return after the direct deliveries.
publishNoReturn(b, message, t, timeout) ==
    LET b1 == [b EXCEPT !.message_counter = @ + 1]
        b2 == [b1 EXCEPT !.queues =
                  PutEach(b1.queues, DirectTargets(b1, message), message)]
        r == _get_subscribers_for_message_type(b2, message.type, t, timeout)
    IN [r.b EXCEPT !.queues =
           PutAll(r.b.queues, BroadcastTargets(r.b, message, r.set), message)]

publish(b, message, t, timeout) ==
    LET b1 == [b EXCEPT !.message_counter = @ + 1]
    IN IF message.recipients # <<>>
       THEN [b1 EXCEPT !.queues =
                PutEach(b1.queues, DirectTargets(b1, message), message)]
       ELSE LET r == _get_subscribers_for_message_type(b1, message.type, t,
                                                       timeout)
            IN [r.b EXCEPT !.queues =
                    PutAll(r.b.queues, BroadcastTargets(r.b, message, r.set),
                           message)]

\* recipient_messages[agent_id].append(message), creating the list on first use.
Group(rm, ids, message) ==
    [a \in DOMAIN rm \cup ids |->
        IF a \in ids
        THEN Append(IF a \in DOMAIN rm THEN rm[a] ELSE <<>>, message)
        ELSE rm[a]]

RECURSIVE GroupEach(_, _, _)
GroupEach(rm, ids, message) ==
    IF ids = <<>> THEN rm
    ELSE GroupEach(Group(rm, {Head(ids)}, message), Tail(ids), message)

\* The first loop of publish_batch: s is [b, rm], the broker state and the
\* recipient_messages dict built so far.
RECURSIVE BatchGroupLoop(_, _, _, _)
BatchGroupLoop(s, messages, t, timeout) ==
    IF messages = <<>> THEN s
    ELSE LET message == Head(messages)
             b1 == [s.b EXCEPT !.message_counter = @ + 1]
             next ==
               IF message.recipients # <<>>
               THEN [b |-> b1,
                     rm |-> GroupEach(s.rm, DirectTargets(b1, message), message)]
               ELSE LET r == _get_subscribers_for_message_type(
                                 b1, message.type, t, timeout)
                    IN [b |-> r.b,
                        rm |-> Group(s.rm,
                                     BroadcastTargets(r.b, message, r.set),
                                     message)]
         IN BatchGroupLoop(next, Tail(messages), t, timeout)

\* Mutant of BatchDeliver: the first message of a recipient's list overtakes
\* what its queue holds.
BatchDeliverSplit(qs, rm) ==
    [a \in DOMAIN qs |->
        IF a \in DOMAIN rm THEN <<Head(rm[a])>> \o qs[a] \o Tail(rm[a])
        ELSE qs[a]]

\* The second loop of publish_batch: every list of recipient_messages is put,
\* in list order, on its recipient's queue.
BatchDeliver(qs, rm) ==
    [a \in DOMAIN qs |-> IF a \in DOMAIN rm THEN qs[a] \o rm[a] ELSE qs[a]]

publish_batch(b, messages, t, timeout) ==
    LET s == BatchGroupLoop([b |-> b, rm |-> <<>>], messages, t, timeout)
    IN [s.b EXCEPT !.queues = BatchDeliver(s.b.queues, s.rm)]

----------------------------------------------------------------------------
\* The callers' side.

\* Messages built by a caller from a list of [sender, type, recipients]
\* arguments; like Agent.send_message the caller takes the id from
\* get_next_message_id.
RECURSIVE Build(_, _, _)
Build(args, uid, counter) ==
    IF args = <<>> THEN <<>>
    ELSE <<Message(uid, get_next_message_id(counter), Head(args).type,
                   Head(args).sender, Head(args).recipients)>>
         \o Build(Tail(args), uid + 1, counter)

Calls == IF published = <<>> THEN 0 ELSE published[Len(published)].call

----------------------------------------------------------------------------
\* The broker API, called as the tests call it.

\* No Agent object is constructed yet.
InitLife ==
    /\ running = <<>>
    /\ phase = <<>>
    /\ loop = <<>>
    /\ cancelling = <<>>
    /\ processed = <<>>
    /\ detached = <<>>
    /\ setups = <<>>
    /\ cleanups = <<>>
    /\ handled = <<>>
    /\ drained = <<>>
    /\ cycles = <<>>
    /\ aborted = <<>>

\* The workflow agents after construction (RiskManagementAgent.__init__,
\* TradeExecutionAgent.__init__, AssetSelectionAgent.__init__).
InitFlow ==
    /\ outbox = <<>>
    /\ evaluations = <<>>
    /\ api_client = "None"
    /\ approved_proposals = <<>>
    /\ available_assets = <<>>
    /\ recommended_assets = <<>>
    /\ exec_read = 0
    /\ asset_read = 0
    /\ received = <<>>
    /\ attempts = <<>>

\* RiskManagementAgent.__init__, StrategyOptimizationAgent.__init__ and
\* AssetSelectionAgent.__init__: the books and the periodic agents' clocks.
PeriodicAgents == {"risk", "strategy", "asset_selection"}

InitDesk ==
    /\ balance = 10000      \* "self.account_balance = 10000.0"
    /\ daily_pnl = 0
    /\ open_positions = {}
    /\ active_trades = {}
    /\ trades_count = 0
    /\ results = <<>>
    /\ last_processed_time = [a \in PeriodicAgents |-> 0]
    /\ correlated_signals = 0
    /\ passes = [a \in PeriodicAgents |-> <<>>]

SetBroker(b) ==
    /\ subscribers' = b.subscribers
    /\ queues' = b.queues
    /\ message_counter' = b.message_counter
    /\ subscribers_cache' = b.cache
    /\ cache_timestamps' = b.cts

Init ==
    /\ subscribers = <<>>
    /\ queues = <<>>
    /\ message_counter = 0
    /\ subscribers_cache = <<>>
    /\ cache_timestamps = <<>>
    /\ now = 0
    /\ created = 0
    /\ published = <<>>
    /\ batch_size = default_batch_size
    /\ message_batch = <<>>
    /\ last_batch_time = <<>>
    /\ scheduled = <<>>
    /\ InitLife
    /\ InitFlow
    /\ InitDesk

RegisterAgent(a) ==
    /\ SetBroker(register_agent(Broker, a))
    /\ UNCHANGED <<desk_vars, flow_vars,
                   now, created, published, agent_vars, life_vars>>

\* The Agent object of a keeps the queue register_agent gave it: once the
\* broker deletes the queue, the agent is its only holder.
Detach(a) ==
    IF a \in DOMAIN loop /\ a \in DOMAIN queues /\ a \notin DOMAIN detached
    THEN DictSet(detached, a, queues[a])
    ELSE detached

UnregisterAgent(a) ==
    /\ SetBroker(unregister_agent(Broker, a))
    /\ detached' = Detach(a)
    /\ UNCHANGED <<desk_vars, flow_vars,
                   now, created, published, agent_vars>>
    /\ UNCHANGED <<running, phase, loop, cancelling, processed, setups,
                   cleanups, handled, drained, cycles, aborted>>

Subscribe(a, types) ==
    /\ SetBroker(subscribe(Broker, a, types))
    /\ UNCHANGED <<desk_vars, flow_vars,
                   now, created, published, agent_vars, life_vars>>

Unsubscribe(a, types) ==
    /\ SetBroker(unsubscribe(Broker, a, types))
    /\ UNCHANGED <<desk_vars, flow_vars,
                   now, created, published, agent_vars, life_vars>>

Publish(arg) ==
    /\ LET message == Build(<<arg>>, created + 1, message_counter)[1]
       IN /\ SetBroker(publish(Broker, message, now, cache_timeout))
          /\ published' = Append(published, [msg |-> message, call |-> Calls + 1])
    /\ created' = created + 1
    /\ UNCHANGED <<desk_vars, flow_vars,
                   now, agent_vars, life_vars>>

PublishBatch(args) ==
    /\ LET messages == Build(args, created + 1, message_counter)
       IN /\ SetBroker(publish_batch(Broker, messages, now, cache_timeout))
          /\ published' = published \o
                 [i \in 1..Len(messages) |->
                     [msg |-> messages[i], call |-> Calls + 1]]
    /\ created' = created + Len(args)
    /\ UNCHANGED <<desk_vars, flow_vars,
                   now, agent_vars, life_vars>>

\* The clock advances, up to `limit`.
Elapse(limit) ==
    /\ now < limit
    /\ now' = now + 1
    /\ UNCHANGED <<desk_vars, flow_vars,
                   subscribers, queues, message_counter, subscribers_cache,
                   cache_timestamps, created, published, agent_vars,
                   life_vars>>

Tick == Elapse(MaxTime)

----------------------------------------------------------------------------
\* Agent: the outbound side (send_message and its batch).  ag is the record
\* [batch, last] of an agent's _message_batch and _last_batch_time.  Each
\* operator returns the broker state, the agent's record and `sent`, the
\* messages it handed to the broker.

\* Mutant of _send_message_batch: the buffer is not cleared.
_send_message_batch_keeps(b, ag, t, timeout) ==
    IF ag.batch = <<>>
    THEN [b |-> b, ag |-> ag, sent |-> <<>>]
    ELSE [b |-> publish_batch(b, ag.batch, t, timeout),
          ag |-> [batch |-> ag.batch, last |-> t],
          sent |-> ag.batch]

_send_message_batch(b, ag, t, timeout) ==
    IF ag.batch = <<>>
    THEN [b |-> b, ag |-> ag, sent |-> <<>>]
    ELSE [b |-> publish_batch(b, ag.batch, t, timeout),
          ag |-> [batch |-> <<>>, last |-> t],
          sent |-> ag.batch]

\* Mutant of send_message: the _schedule_batch_send task is never created.
send_message_untimed(b, ag, size, message, t, timeout) ==
    IF size > 1
    THEN LET ag1 == [ag EXCEPT !.batch = Append(@, message)]
             r == IF Len(ag1.batch) >= size \/ t - ag1.last >= batch_interval
                  THEN _send_message_batch(b, ag1, t, timeout)
                  ELSE [b |-> b, ag |-> ag1, sent |-> <<>>]
         IN [b |-> r.b, ag |-> r.ag, sent |-> r.sent, task |-> FALSE]
    ELSE [b |-> publish(b, message, t, timeout), ag |-> ag,
          sent |-> <<message>>, task |-> FALSE]

\* send_message after the Message is built; `task` tells whether a
\* _schedule_batch_send task is created.
send_message(b, ag, size, message, t, timeout) ==
    IF size > 1
    THEN LET ag1 == [ag EXCEPT !.batch = Append(@, message)]
             r == IF Len(ag1.batch) >= size \/ t - ag1.last >= batch_interval
                  THEN _send_message_batch(b, ag1, t, timeout)
                  ELSE [b |-> b, ag |-> ag1, sent |-> <<>>]
         IN [b |-> r.b, ag |-> r.ag, sent |-> r.sent,
             task |-> Len(r.ag.batch) = 1]
    ELSE [b |-> publish(b, message, t, timeout), ag |-> ag,
          sent |-> <<message>>, task |-> FALSE]

Constructed == DOMAIN message_batch

AgentState(a) == [batch |-> message_batch[a], last |-> last_batch_time[a]]

SetAgent(a, ag) ==
    /\ message_batch' = [message_batch EXCEPT ![a] = ag.batch]
    /\ last_batch_time' = [last_batch_time EXCEPT ![a] = ag.last]

\* The history of a step that hands `sent` to the broker in one call.
Publishes(sent) ==
    published' = published \o
        [i \in 1..Len(sent) |-> [msg |-> sent[i], call |-> Calls + 1]]

\* Agent.__init__
AgentInit(a) ==
    /\ a \notin Constructed
    /\ SetBroker(register_agent(Broker, a))
    /\ message_batch' = DictSet(message_batch, a, <<>>)
    /\ last_batch_time' = DictSet(last_batch_time, a, now)
    /\ scheduled' = DictSet(scheduled, a, <<>>)
    /\ running' = DictSet(running, a, FALSE)
    /\ phase' = DictSet(phase, a, "new")
    /\ loop' = DictSet(loop, a, "None")
    /\ cancelling' = DictSet(cancelling, a, FALSE)
    /\ processed' = DictSet(processed, a, 0)
    /\ setups' = DictSet(setups, a, 0)
    /\ cleanups' = DictSet(cleanups, a, 0)
    /\ handled' = DictSet(handled, a, <<>>)
    /\ drained' = DictSet(drained, a, 0)
    /\ cycles' = DictSet(cycles, a, 0)
    /\ aborted' = DictSet(aborted, a, 0)
    /\ UNCHANGED <<desk_vars, flow_vars,
                   now, created, published, batch_size, detached>>

\* Agent.subscribe_to
SubscribeTo(a, types) ==
    /\ a \in Constructed
    /\ SetBroker(subscribe(Broker, a, types))
    /\ UNCHANGED <<desk_vars, flow_vars,
                   now, created, published, agent_vars, life_vars>>

\* Agent.send_message(msg_type, content, recipients)
SendMessage(a, msg_type, recipients) ==
    /\ a \in Constructed
    /\ LET message == Message(created + 1, get_next_message_id(message_counter),
                              msg_type, a, recipients)
           r == send_message(Broker, AgentState(a), batch_size, message, now,
                             cache_timeout)
       IN /\ SetBroker(r.b)
          /\ SetAgent(a, r.ag)
          /\ Publishes(r.sent)
          /\ scheduled' = IF r.task
                          THEN [scheduled EXCEPT
                                   ![a] = Append(@, now + batch_interval)]
                          ELSE scheduled
    /\ created' = created + 1
    /\ UNCHANGED <<desk_vars, flow_vars,
                   now, batch_size, life_vars>>

\* _schedule_batch_send: the i-th pending task of a wakes after its sleep.
ScheduledFlush(a, i) ==
    /\ a \in Constructed
    /\ i \in DOMAIN scheduled[a]
    /\ scheduled[a][i] <= now
    /\ LET r == _send_message_batch(Broker, AgentState(a), now, cache_timeout)
       IN /\ SetBroker(r.b)
          /\ SetAgent(a, r.ag)
          /\ Publishes(r.sent)
    /\ scheduled' = [scheduled EXCEPT ![a] =
                        SubSeq(@, 1, i - 1) \o SubSeq(@, i + 1, Len(@))]
    /\ UNCHANGED <<desk_vars, flow_vars,
                   now, created, batch_size, life_vars>>

----------------------------------------------------------------------------
\* Agent: the lifecycle (start, stop) and the processing task (_process_loop).
\*
\* A coroutine runs without interruption from one await that suspends it to
\* the next, so an action is one such stretch.  The suspension points of the
\* processing task are the values of loop[a]:
\*   "None"       processing_task is None
\*   "created"    the task is created and has not run yet
\*   "handle"     inside handle_message, at an await of the hook
\*   "sleep"      at asyncio.sleep(0.01)
\*   "cycle"      inside process_cycle, at an await of the hook
\*   "pause"      at asyncio.sleep(1)
\*   "done"       the task returned
\*   "cancelled"  the task ended with CancelledError
\* The hooks (setup, cleanup, process_cycle, handle_message) are the
\* subclass's: each may suspend, may call send_message, and returns or raises
\* an Exception.  CancelledError is a BaseException: "except Exception" does
\* not catch it.  start() and stop() of one agent are called one at a time, as
\* src/main.py calls them; phase[a] is the call in progress ("setup",
\* "stopping", "cleanup") or the last call that did something ("new",
\* "started", "start_failed", "stopped", "stop_failed").

Live == {"created", "handle", "sleep", "cycle", "pause"}
Finished == {"None", "done", "cancelled"}
Idle == {"new", "started", "start_failed", "stopped", "stop_failed"}
Outcomes == {"returns", "raises"}

\* Agent.message_queue: the queue register_agent returned to __init__.
MessageQueue(a) ==
    IF a \in DOMAIN detached THEN detached[a]
    ELSE IF a \in DOMAIN queues THEN queues[a] ELSE <<>>

\* The part of the state one stretch of _process_loop works on.
LoopState(a) ==
    [b |-> Broker, ag |-> AgentState(a), q |-> MessageQueue(a),
     pc |-> loop[a], processed |-> processed[a], handled |-> handled[a],
     drained |-> drained[a], cycles |-> cycles[a], sent |-> <<>>]

\* "await self.process_cycle()"
InvokeCycle(st) == [st EXCEPT !.pc = "cycle", !.cycles = @ + 1]

\* "if messages_processed == 0: ..." after the drain.
AfterDrain(st, t, timeout) ==
    IF st.processed = 0
    THEN IF st.ag.batch # <<>> /\ t - st.ag.last >= batch_interval
         THEN LET r == _send_message_batch(st.b, st.ag, t, timeout)
              IN [st EXCEPT !.b = r.b, !.ag = r.ag, !.sent = r.sent,
                            !.pc = "sleep"]
         ELSE [st EXCEPT !.pc = "sleep"]
    ELSE InvokeCycle(st)

\* "while not self.message_queue.empty() and messages_processed <
\* self._batch_size: message = await self.message_queue.get(); await
\* self.handle_message(message)"
Drain(st, size, t, timeout) ==
    IF st.q # <<>> /\ st.processed < size
    THEN [st EXCEPT !.q = Tail(@), !.handled = Append(@, Head(st.q)),
                    !.drained = @ + 1, !.pc = "handle"]
    ELSE AfterDrain(st, t, timeout)

\* "while self.running: messages_processed = 0; ..."
Iterate(st, run, size, t, timeout) ==
    IF run
    THEN Drain([st EXCEPT !.processed = 0, !.drained = 0, !.cycles = 0],
               size, t, timeout)
    ELSE [st EXCEPT !.pc = "done"]

\* Mutant of AfterCycle: an exception of process_cycle ends the loop.
AfterCycleRaiseEnds(st, outcome, run, size, t, timeout) ==
    IF outcome = "raises"
    THEN [st EXCEPT !.pc = "done"]
    ELSE Iterate(st, run, size, t, timeout)

\* process_cycle returned or raised: "except Exception: ...; await
\* asyncio.sleep(1)".
AfterCycle(st, outcome, run, size, t, timeout) ==
    IF outcome = "raises"
    THEN [st EXCEPT !.pc = "pause"]
    ELSE Iterate(st, run, size, t, timeout)

\* Mutant of AfterHandle: an exception of handle_message ends the loop.
AfterHandleRaiseEnds(st, outcome, size, t, timeout) ==
    IF outcome = "raises"
    THEN [st EXCEPT !.pc = "done"]
    ELSE Drain([st EXCEPT !.processed = @ + 1], size, t, timeout)

\* handle_message returned ("messages_processed += 1") or raised.
AfterHandle(st, outcome, size, t, timeout) ==
    Drain([st EXCEPT !.processed = IF outcome = "returns" THEN @ + 1 ELSE @],
          size, t, timeout)

\* The stretch of the processing task from its suspension point st.pc.
Resume(st, outcome, run, size, t, timeout) ==
    CASE st.pc = "created" -> Iterate(st, run, size, t, timeout)
      [] st.pc = "handle" -> AfterHandle(st, outcome, size, t, timeout)
      [] st.pc = "sleep" -> InvokeCycle(st)
      [] st.pc = "cycle" -> AfterCycle(st, outcome, run, size, t, timeout)
      [] st.pc = "pause" -> Iterate(st, run, size, t, timeout)

\* The processing task of a runs from one suspension point to the next.
LoopStep(a, outcome) ==
    /\ a \in Constructed
    /\ loop[a] \in Live
    /\ ~cancelling[a]
    /\ outcome = "raises" => loop[a] \in {"handle", "cycle"}
    /\ LET st == Resume(LoopState(a), outcome, running[a], batch_size, now,
                        cache_timeout)
       IN /\ subscribers' = st.b.subscribers
          /\ message_counter' = st.b.message_counter
          /\ subscribers_cache' = st.b.cache
          /\ cache_timestamps' = st.b.cts
          /\ IF a \in DOMAIN detached
             THEN detached' = [detached EXCEPT ![a] = st.q]
                  /\ queues' = st.b.queues
             ELSE detached' = detached
                  /\ queues' = [st.b.queues EXCEPT ![a] =
                                   st.q \o SubSeq(@, Len(MessageQueue(a)) + 1,
                                                  Len(@))]
          /\ SetAgent(a, st.ag)
          /\ Publishes(st.sent)
          /\ loop' = [loop EXCEPT ![a] = st.pc]
          /\ processed' = [processed EXCEPT ![a] = st.processed]
          /\ handled' = [handled EXCEPT ![a] = st.handled]
          /\ drained' = [drained EXCEPT ![a] = st.drained]
          /\ cycles' = [cycles EXCEPT ![a] = st.cycles]
    /\ UNCHANGED <<desk_vars, flow_vars,
                   now, created, batch_size, scheduled, running, phase,
                   cancelling, setups, cleanups, aborted>>

\* CancelledError is thrown into the task at the await where it stands.
LoopCancelled(a) ==
    /\ a \in Constructed
    /\ loop[a] \in Live
    /\ cancelling[a]
    /\ loop' = [loop EXCEPT ![a] = "cancelled"]
    /\ cancelling' = [cancelling EXCEPT ![a] = FALSE]
    /\ aborted' = [aborted EXCEPT ![a] =
                      IF loop[a] \in {"handle", "cycle"} THEN @ + 1 ELSE @]
    /\ UNCHANGED <<desk_vars, flow_vars,
                   subscribers, queues, message_counter, subscribers_cache,
                   cache_timestamps, now, created, published, agent_vars,
                   running, phase, processed, detached, setups, cleanups,
                   handled, drained, cycles>>

\* processing_task.cancel() by some other code than stop().
CancelTask(a) ==
    /\ a \in Constructed
    /\ loop[a] \in Live
    /\ cancelling' = [cancelling EXCEPT ![a] = TRUE]
    /\ UNCHANGED <<desk_vars, flow_vars,
                   subscribers, queues, message_counter, subscribers_cache,
                   cache_timestamps, now, created, published, agent_vars,
                   running, phase, loop, processed, detached, setups,
                   cleanups, handled, drained, cycles, aborted>>

broker_vars == <<subscribers, queues, message_counter, subscribers_cache,
                 cache_timestamps>>

\* Mutant of StartGuard: start() does not look at self.running.
StartAlways(a) == TRUE

\* "if self.running: ... return" of start(): TRUE when start() goes on.
StartGuard(a) == ~running[a]

\* Agent.start(), up to the await of setup().
Start(a) ==
    /\ a \in Constructed
    /\ phase[a] \in Idle
    /\ IF StartGuard(a)
       THEN /\ setups[a] < MaxStarts
            /\ running' = [running EXCEPT ![a] = TRUE]
            /\ setups' = [setups EXCEPT ![a] = @ + 1]
            /\ phase' = [phase EXCEPT ![a] = "setup"]
       ELSE UNCHANGED <<running, setups, phase>>
    /\ UNCHANGED <<desk_vars, flow_vars,
                   broker_vars, now, created, published, agent_vars, loop,
                   cancelling, processed, detached, cleanups, handled,
                   drained, cycles, aborted>>

\* setup() returns, and start() creates the processing task; or setup()
\* raises, and start() raises with it.
SetupEnds(a, outcome) ==
    /\ a \in Constructed
    /\ phase[a] = "setup"
    /\ IF outcome = "returns"
       THEN /\ loop' = [loop EXCEPT ![a] = "created"]
            /\ cancelling' = [cancelling EXCEPT ![a] = FALSE]
            /\ phase' = [phase EXCEPT ![a] = "started"]
       ELSE /\ phase' = [phase EXCEPT ![a] = "start_failed"]
            /\ UNCHANGED <<loop, cancelling>>
    /\ UNCHANGED <<desk_vars, flow_vars,
                   broker_vars, now, created, published, agent_vars, running,
                   processed, detached, setups, cleanups, handled, drained,
                   cycles, aborted>>

\* "if not self.running: return" of stop(): TRUE when stop() goes on.
StopGuard(a) == running[a]

\* Agent.stop(), up to "await self.processing_task" or, when there is no
\* task to wait for, up to the await of cleanup().
Stop(a) ==
    /\ a \in Constructed
    /\ phase[a] \in Idle
    /\ IF StopGuard(a)
       THEN /\ running' = [running EXCEPT ![a] = FALSE]
            /\ LET r == _send_message_batch(Broker, AgentState(a), now,
                                            cache_timeout)
               IN /\ SetBroker(r.b)
                  /\ SetAgent(a, r.ag)
                  /\ Publishes(r.sent)
            /\ IF loop[a] \in Live
               THEN /\ cancelling' = [cancelling EXCEPT ![a] = TRUE]
                    /\ phase' = [phase EXCEPT ![a] = "stopping"]
                    /\ UNCHANGED cleanups
               ELSE /\ cleanups' = [cleanups EXCEPT ![a] = @ + 1]
                    /\ phase' = [phase EXCEPT ![a] = "cleanup"]
                    /\ UNCHANGED cancelling
       ELSE UNCHANGED <<broker_vars, published, message_batch,
                        last_batch_time, running, cancelling, phase, cleanups>>
    /\ UNCHANGED <<desk_vars, flow_vars,
                   now, created, batch_size, scheduled, loop, processed,
                   detached, setups, handled, drained, cycles, aborted>>

\* Mutant of TaskEnded: stop() does not wait for the task.
TaskAny(a) == TRUE

\* "await self.processing_task" returns or raises CancelledError.
TaskEnded(a) == loop[a] \in Finished

\* stop() after "await self.processing_task": cleanup() is called.
StopResumes(a) ==
    /\ a \in Constructed
    /\ phase[a] = "stopping"
    /\ TaskEnded(a)
    /\ cleanups' = [cleanups EXCEPT ![a] = @ + 1]
    /\ phase' = [phase EXCEPT ![a] = "cleanup"]
    /\ UNCHANGED <<desk_vars, flow_vars,
                   broker_vars, now, created, published, agent_vars, running,
                   loop, cancelling, processed, detached, setups, handled,
                   drained, cycles, aborted>>

\* cleanup() returns, and stop() unregisters the agent; or cleanup()
\* raises, and stop() raises with it.
CleanupEnds(a, outcome) ==
    /\ a \in Constructed
    /\ phase[a] = "cleanup"
    /\ IF outcome = "returns"
       THEN /\ SetBroker(unregister_agent(Broker, a))
            /\ detached' = Detach(a)
            /\ phase' = [phase EXCEPT ![a] = "stopped"]
       ELSE /\ phase' = [phase EXCEPT ![a] = "stop_failed"]
            /\ UNCHANGED <<broker_vars, detached>>
    /\ UNCHANGED <<desk_vars, flow_vars,
                   now, created, published, agent_vars, running, loop,
                   cancelling, processed, setups, cleanups, handled, drained,
                   cycles, aborted>>

\* The agent is inside one of its hooks, and the hook is not being cancelled.
InHook(a) ==
    \/ phase[a] \in {"setup", "cleanup"}
    \/ loop[a] \in {"handle", "cycle"} /\ ~cancelling[a]

\* A hook of a calls send_message.
HookSends(a, msg_type, recipients) ==
    /\ a \in Constructed
    /\ InHook(a)
    /\ SendMessage(a, msg_type, recipients)

----------------------------------------------------------------------------
\* The trade workflow: RiskManagementAgent, TradeExecutionAgent and
\* AssetSelectionAgent.
\*
\* An action is one call of a handler; a handler runs to its end before its
\* agent takes the next message or cycle.  What the agents hand to
\* send_message is recorded in `outbox`, in the order of the calls, and the
\* handlers of the other agents are called with the messages of `outbox` in
\* that order.  trade_proposal messages come from outside the model.
\*
\* MessageType has no member MARKET_DATA.  TradeExecutionAgent.setup and
\* AssetSelectionAgent.setup name it in the list they build for subscribe_to
\* and raise AttributeError before anything else is done, so setup() leaves
\* api_client at None; the gateway is attached by assigning the attribute.
\* Both handle_message methods name it in a comparison, which raises when it
\* is evaluated.
\*
\* A symbol is the list symbol.split("/"): <<"EUR", "USD">> is "EUR/USD" and
\* <<"frxEURUSD">> is a symbol without "/".  <<>> stands for no symbol.

None == "None"
NoSymbol == <<>>

\* RiskManagementAgent.__init__
account_balance == 10000
max_position_size_percent == 5
max_account_risk_percent == 2

\* _create_default_risk_assessment: stop_loss_pips
stop_loss_pips == 20

\* _create_default_risk_assessment: max_position_size
max_position_size == (account_balance * max_position_size_percent) \div 100

\* A TradeProposal as a dict (proposal.__dict__).
TradeProposal(id, symbol, size, status, expiry_time) ==
    [id |-> id, symbol |-> symbol, size |-> size, status |-> status,
     expiry_time |-> expiry_time]

NoProposal == TradeProposal(None, NoSymbol, 0, None, 0)

\* message.content of the workflow messages; a key that is absent is None,
\* NoProposal or the empty list.  Of content["execution"], the proposal_id
\* and the status are kept.
NoContent ==
    [event |-> None, proposal_id |-> None, adjusted_proposal |-> NoProposal,
     proposal |-> NoProposal, reason |-> None, available_assets |-> <<>>,
     recommended_assets |-> <<>>, status |-> None]

\* The Message send_message builds; recipients=None becomes [].
WorkflowMessage(msg_type, sender, recipients, content) ==
    [type |-> msg_type, sender |-> sender, recipients |-> recipients,
     content |-> content, time |-> now]

\* "pip_value = 0.0001 if not symbol.endswith("JPY") else 0.01", in units of
\* 0.0001.
pip_value(symbol) ==
    IF symbol # NoSymbol /\ symbol[Len(symbol)] = "JPY" THEN 100 ELSE 1

\* _calculate_proposal_risk, in units of 0.0001; the proposals of the model
\* carry no entry_price, so the assessment's stop_loss_pips is used.
_calculate_proposal_risk(proposal) ==
    proposal.size * stop_loss_pips * pip_value(proposal.symbol)

\* _check_correlation_risk with no open position: "raises" is the IndexError
\* of symbol.split('/')[1]; a LONG proposal adds size to the base currency
\* and subtracts it from the quote currency.
_check_correlation_risk(proposal) ==
    IF Len(proposal.symbol) < 2 THEN "raises"
    ELSE IF 2 * proposal.size > account_balance THEN "excessive"
    ELSE "ok"

Min(x, y) == IF x <= y THEN x ELSE y

\* _adjust_position_size
_adjust_position_size(proposal) ==
    LET risk_per_unit == stop_loss_pips * pip_value(proposal.symbol)
        max_risk_amount == (account_balance * max_account_risk_percent) \div 100
        max_size == Min((max_risk_amount * 10000) \div risk_per_unit,
                        max_position_size)
    IN Min(proposal.size, max_size)

\* approve_trade
approve_trade(proposal) ==
    LET approved == [proposal EXCEPT !.status = "APPROVED"]
    IN WorkflowMessage("TRADE_APPROVAL", "risk", <<>>,
           [NoContent EXCEPT !.proposal_id = approved.id,
                             !.adjusted_proposal = approved])

\* reject_trade
reject_trade(proposal, reason) ==
    LET rejected == [proposal EXCEPT !.status = "REJECTED"]
    IN WorkflowMessage("TRADE_REJECTION", "risk", <<>>,
           [NoContent EXCEPT !.proposal_id = rejected.id,
                             !.proposal = rejected, !.reason = reason])

\* evaluate_trade_proposal: the messages it sends.  proposal_data is
\* message.content.get("proposal", {}); NoProposal is the {} of a message
\* without a usable "proposal", for which TradeProposal(**proposal_data)
\* raises TypeError before the local `proposal` exists.
evaluate_trade_proposal(proposal_data) ==
    IF proposal_data = NoProposal
    THEN <<>>
    ELSE LET proposal == proposal_data
         IN IF proposal.size > max_position_size
            THEN <<reject_trade(proposal, "Position size exceeds maximum")>>
            ELSE IF _calculate_proposal_risk(proposal) * 100
                        > max_account_risk_percent * account_balance * 10000
            THEN <<reject_trade(proposal,
                       "Trade would exceed maximum account risk")>>
            ELSE IF _check_correlation_risk(proposal) = "raises"
            THEN <<reject_trade(proposal, "Error in risk evaluation")>>
            ELSE IF _check_correlation_risk(proposal) = "excessive"
            THEN <<reject_trade(proposal,
                       "Trade would create excessive correlation risk")>>
            ELSE <<approve_trade(
                       [proposal EXCEPT
                           !.size = _adjust_position_size(proposal)])>>

\* RiskManagementAgent.handle_message with a trade_proposal message.
EvaluateTradeProposal(proposal_data) ==
    /\ LET decisions == evaluate_trade_proposal(proposal_data)
       IN /\ outbox' = outbox \o decisions
          /\ evaluations' = Append(evaluations,
                 [proposal_id |-> proposal_data.id,
                  decisions |-> Len(decisions)])
    /\ UNCHANGED <<desk_vars, broker_vars, now, created, published,
                   agent_vars,
                   life_vars, api_client, approved_proposals,
                   available_assets, recommended_assets, exec_read,
                   asset_read, received, attempts>>

\* The gateway is attached: "self.api_client = SimulationGateway(...); await
\* self.api_client.connect()".
AttachGateway ==
    /\ api_client = None
    /\ api_client' = "connected"
    /\ UNCHANGED <<desk_vars, broker_vars, now, created, published,
                   agent_vars,
                   life_vars, outbox, evaluations, approved_proposals,
                   available_assets, recommended_assets, exec_read,
                   asset_read, received, attempts>>

\* "self.approved_proposals[proposal_id] = adjusted_proposal": a key that is
\* present keeps its place in the dict.
DictPut(d, key, value) ==
    IF \E i \in DOMAIN d : d[i].key = key
    THEN [i \in DOMAIN d |->
             IF d[i].key = key THEN [key |-> key, value |-> value] ELSE d[i]]
    ELSE Append(d, [key |-> key, value |-> value])

\* handle_trade_approval
handle_trade_approval(approved, message) ==
    IF message.content.proposal_id = None
          \/ message.content.adjusted_proposal = NoProposal
    THEN approved
    ELSE DictPut(approved, message.content.proposal_id,
                 message.content.adjusted_proposal)

\* Mutant of handle_message: every message that carries a proposal is taken
\* for an approval.
exec_handle_message_untyped(approved, message) ==
    IF message.content.proposal_id # None
    THEN DictPut(approved, message.content.proposal_id,
                 IF message.content.adjusted_proposal # NoProposal
                 THEN message.content.adjusted_proposal
                 ELSE message.content.proposal)
    ELSE approved

\* TradeExecutionAgent.handle_message: a trade_approval goes to
\* handle_trade_approval; for any other type the comparison with
\* MessageType.MARKET_DATA raises AttributeError.
exec_handle_message(approved, message) ==
    IF message.type = "TRADE_APPROVAL"
    THEN handle_trade_approval(approved, message)
    ELSE approved

\* "proposal.symbol.split("/")[0] in symbol": the base currency of the
\* proposal's symbol occurs in the recommended symbol.
HasBase(symbol, recommended) ==
    \E i \in DOMAIN recommended : recommended[i] = symbol[1]

\* The loop over self.recommended_assets: the first symbol that has the base
\* currency, NoSymbol if there is none.
fallback_symbol(symbol, recommended) ==
    LET hits == {i \in DOMAIN recommended : HasBase(symbol, recommended[i])}
    IN IF hits = {} THEN NoSymbol
       ELSE recommended[CHOOSE i \in hits : \A j \in hits : i <= j]

\* execute_trade up to place_order: the symbol the order is placed on,
\* NoSymbol if place_order is not called.
execute_trade(proposal, client, available, recommended) ==
    IF client = None
    THEN NoSymbol
    ELSE IF available # <<>> /\ proposal.symbol \notin Range(available)
    THEN IF recommended # <<>>
         THEN fallback_symbol(proposal.symbol, recommended)
         ELSE NoSymbol
    ELSE proposal.symbol

\* execute_trade after place_order: what it returns.  When the gateway
\* reports no success it returns None.  When the order is filled,
\* "TradeExecution(execution_id=..., order_id=..., status=TradeStatus.OPEN,
\* ...)" raises (TradeStatus has no member OPEN, and order_id, requested_size,
\* requested_price, stop_loss, take_profit, slippage and gateway_type are not
\* fields of TradeExecution); "except Exception" returns None, and the lines
\* that store the trade in self.open_trades are not reached.
execution_result(placed, outcome) == None

\* One pass of the loop of process_approved_proposals over entry i: the
\* record of the execute_trade call.
Attempt(approved, i, client, available, recommended, outcome) ==
    LET proposal == approved[i].value
        placed == execute_trade(proposal, client, available, recommended)
    IN [proposal_id |-> approved[i].key, symbol |-> proposal.symbol,
        expiry_time |-> proposal.expiry_time, placed |-> placed,
        outcome |-> IF placed = NoSymbol THEN None ELSE outcome,
        result |-> execution_result(placed, outcome),
        client |-> client, available |-> available,
        recommended |-> recommended, seen |-> Len(received), time |-> now]

\* Mutant of process_approved_proposals: an entry whose order was not filled
\* stays in approved_proposals for the next pass.
process_approved_proposals_retries(approved, client, available, recommended, outcomes) ==
    LET tried == [i \in DOMAIN approved |->
                     Attempt(approved, i, client, available, recommended,
                             outcomes[i])]
    IN [approved |-> SelectSeq(approved,
                        LAMBDA e : \E i \in DOMAIN tried :
                            /\ tried[i].proposal_id = e.key
                            /\ tried[i].outcome # "filled"),
        attempts |-> tried, sent |-> <<>>]

\* process_approved_proposals: every entry is executed and deleted, whether
\* execute_trade returns or raises; a trade_execution message is sent for an
\* entry whose execution_result is not None.
process_approved_proposals(approved, client, available, recommended, outcomes) ==
    LET tried == [i \in DOMAIN approved |->
                     Attempt(approved, i, client, available, recommended,
                             outcomes[i])]
        RECURSIVE Executions(_)
        Executions(i) ==
            IF i > Len(tried) THEN <<>>
            ELSE (IF tried[i].result # None
                  THEN <<WorkflowMessage("TRADE_EXECUTION", "exec", <<>>,
                            [NoContent EXCEPT
                                !.proposal_id = tried[i].proposal_id])>>
                  ELSE <<>>) \o Executions(i + 1)
    IN [approved |-> <<>>, attempts |-> tried, sent |-> Executions(1)]

GatewayOutcomes == {"filled", "refused"}

\* TradeExecutionAgent.process_cycle: process_approved_proposals.  (With no
\* open trade, monitor_open_trades returns at once.)
ProcessApprovedProposals(outcomes) ==
    /\ approved_proposals # <<>>
    /\ LET r == process_approved_proposals(approved_proposals, api_client,
                    available_assets, recommended_assets, outcomes)
       IN /\ approved_proposals' = r.approved
          /\ attempts' = attempts \o r.attempts
          /\ outbox' = outbox \o r.sent
    /\ UNCHANGED <<desk_vars, broker_vars, now, created, published,
                   agent_vars,
                   life_vars, evaluations, api_client, available_assets,
                   recommended_assets, exec_read, asset_read, received>>

\* The next message of the outbox after `read` that `agent` did not send.
NextFrom(read, agent) ==
    LET later == {i \in DOMAIN outbox : i > read /\ outbox[i].sender # agent}
    IN IF later = {} THEN 0 ELSE CHOOSE i \in later : \A j \in later : i <= j

\* TradeExecutionAgent.handle_message with the next message.
ExecHandleMessage ==
    /\ NextFrom(exec_read, "exec") # 0
    /\ LET i == NextFrom(exec_read, "exec")
           message == outbox[i]
       IN /\ exec_read' = i
          /\ approved_proposals' =
                 exec_handle_message(approved_proposals, message)
          /\ received' =
                 IF message.type = "TRADE_APPROVAL"
                 THEN Append(received,
                         [proposal_id |-> message.content.proposal_id,
                          expiry_time |->
                              message.content.adjusted_proposal.expiry_time,
                          time |-> now])
                 ELSE received
    /\ UNCHANGED <<desk_vars, broker_vars, now, created, published,
                   agent_vars,
                   life_vars, outbox, evaluations, api_client,
                   available_assets, recommended_assets, asset_read,
                   attempts>>

AvailabilityEvents ==
    {"asset_availability_update", "asset_availability_response"}

\* handle_system_status, called with message i of the outbox.
\* (handle_message does not reach it: see exec_handle_message.)
HandleSystemStatus(i) ==
    /\ i \in DOMAIN outbox
    /\ outbox[i].type = "SYSTEM_STATUS"
    /\ outbox[i].content.event \in AvailabilityEvents
    /\ available_assets' = outbox[i].content.available_assets
    /\ recommended_assets' = outbox[i].content.recommended_assets
    /\ <<available_assets, recommended_assets>>'
           # <<available_assets, recommended_assets>>
    /\ UNCHANGED <<desk_vars, broker_vars, now, created, published,
                   agent_vars,
                   life_vars, outbox, evaluations, api_client,
                   approved_proposals, exec_read, asset_read, received,
                   attempts>>

\* request_available_assets
RequestAvailableAssets ==
    /\ outbox' = Append(outbox,
           WorkflowMessage("SYSTEM_STATUS", "exec", <<"asset_selection">>,
               [NoContent EXCEPT !.event = "asset_availability_request"]))
    /\ UNCHANGED <<desk_vars, broker_vars, now, created, published,
                   agent_vars,
                   life_vars, evaluations, api_client, approved_proposals,
                   available_assets, recommended_assets, exec_read,
                   asset_read, received, attempts>>

\* broadcast_asset_status, after check_asset_availability has set the lists.
BroadcastAssetStatus(available, recommended) ==
    /\ outbox' = Append(outbox,
           WorkflowMessage("SYSTEM_STATUS", "asset_selection", <<>>,
               [NoContent EXCEPT !.event = "asset_availability_update",
                                 !.available_assets = available,
                                 !.recommended_assets = recommended]))
    /\ UNCHANGED <<desk_vars, broker_vars, now, created, published,
                   agent_vars,
                   life_vars, evaluations, api_client, approved_proposals,
                   available_assets, recommended_assets, exec_read,
                   asset_read, received, attempts>>

\* send_asset_availability
send_asset_availability(requesting_agent, available, recommended) ==
    WorkflowMessage("SYSTEM_STATUS", "asset_selection", <<requesting_agent>>,
        [NoContent EXCEPT !.event = "asset_availability_response",
                          !.available_assets = available,
                          !.recommended_assets = recommended])

\* AssetSelectionAgent.handle_message: the messages it sends.  The first
\* comparison, "message.type == MessageType.MARKET_DATA", raises
\* AttributeError for every message, so send_asset_availability is not
\* reached.
asset_handle_message(message) == <<>>

\* AssetSelectionAgent.handle_message with the next message.
AssetHandleMessage ==
    /\ NextFrom(asset_read, "asset_selection") # 0
    /\ asset_read' = NextFrom(asset_read, "asset_selection")
    /\ outbox' = outbox \o
           asset_handle_message(outbox[NextFrom(asset_read, "asset_selection")])
    /\ UNCHANGED <<desk_vars, broker_vars, now, created, published,
                   agent_vars,
                   life_vars, evaluations, api_client, approved_proposals,
                   available_assets, recommended_assets, exec_read, received,
                   attempts>>

----------------------------------------------------------------------------
\* The books of Risk and Strategy, and the periodic passes of process_cycle.

\* RiskManagementAgent.update_portfolio_with_trade with a trade_execution
\* whose execution has the given execution_id.
UpdatePortfolioWithTrade(execution_id) ==
    /\ open_positions' = open_positions \cup {execution_id}
    /\ UNCHANGED <<broker_vars, now, created, published, agent_vars,
                   life_vars, flow_vars, balance, daily_pnl, active_trades,
                   trades_count, results, last_processed_time,
                   correlated_signals, passes>>

\* RiskManagementAgent.update_performance_metrics on the book
\* [balance, daily_pnl, open_positions].
update_performance_metrics(book, trade_id, profit_loss) ==
    [balance |-> book.balance + profit_loss,
     daily_pnl |-> book.daily_pnl + profit_loss,
     open_positions |-> book.open_positions \ {trade_id}]

\* StrategyOptimizationAgent.update_strategy_performance on the book
\* [active_trades, trades_count]; every proposal names a strategy that
\* exists.
update_strategy_performance(book, trade_id, profit_loss) ==
    IF trade_id \notin book.active_trades
    THEN book
    ELSE [active_trades |-> book.active_trades \ {trade_id},
          trades_count |-> book.trades_count + 1]

\* A trade_result with a "result" is handled by `agent`: Risk calls
\* update_performance_metrics, Strategy update_strategy_performance.
HandleTradeResult(agent, trade_id, profit_loss) ==
    /\ results' = Append(results,
           [agent |-> agent, trade_id |-> trade_id,
            profit_loss |-> profit_loss,
            known |-> IF agent = "risk" THEN trade_id \in open_positions
                      ELSE trade_id \in active_trades])
    /\ IF agent = "risk"
       THEN LET book == update_performance_metrics(
                            [balance |-> balance, daily_pnl |-> daily_pnl,
                             open_positions |-> open_positions],
                            trade_id, profit_loss)
            IN /\ balance' = book.balance
               /\ daily_pnl' = book.daily_pnl
               /\ open_positions' = book.open_positions
               /\ UNCHANGED <<active_trades, trades_count>>
       ELSE LET book == update_strategy_performance(
                            [active_trades |-> active_trades,
                             trades_count |-> trades_count],
                            trade_id, profit_loss)
            IN /\ active_trades' = book.active_trades
               /\ trades_count' = book.trades_count
               /\ UNCHANGED <<balance, daily_pnl, open_positions>>
    /\ UNCHANGED <<broker_vars, now, created, published, agent_vars,
                   life_vars, flow_vars, last_processed_time,
                   correlated_signals, passes>>

\* update_interval_seconds (AssetSelectionAgent: check_interval_seconds), in
\* clock units.
update_interval == 2

\* StrategyOptimizationAgent.correlate_signals stores a correlated signal
\* whose confidence and direction qualify it for a proposal.
CorrelateSignals ==
    /\ correlated_signals' = correlated_signals + 1
    /\ UNCHANGED <<broker_vars, now, created, published, agent_vars,
                   life_vars, flow_vars, balance, daily_pnl, open_positions,
                   active_trades, trades_count, results,
                   last_processed_time, passes>>

\* The periodic work of process_cycle: "returns" or "raises".
\* generate_trade_proposals builds TradeProposal(..., strategy=...,
\* signal_confidence=..., creation_time=...) for a qualifying signal, which
\* raises TypeError (these are no fields of TradeProposal) before
\* active_trades is assigned and before the signal is removed.
periodic_work(agent, signals) ==
    IF agent = "strategy" /\ signals > 0 THEN "raises" ELSE "returns"

\* process_cycle: whether the periodic pass runs, and last_processed_time
\* afterwards, which is assigned after the periodic work has returned.
process_cycle(agent, last, current_time, signals) ==
    IF current_time - last >= update_interval
    THEN [ran |-> TRUE,
          last |-> IF periodic_work(agent, signals) = "returns"
                   THEN current_time ELSE last]
    ELSE [ran |-> FALSE, last |-> last]

ProcessCycle(agent) ==
    /\ LET r == process_cycle(agent, last_processed_time[agent], now,
                              correlated_signals)
       IN /\ last_processed_time' =
                 [last_processed_time EXCEPT ![agent] = r.last]
          /\ passes' = IF r.ran
                       THEN [passes EXCEPT ![agent] = Append(@, now)]
                       ELSE passes
    /\ <<last_processed_time, passes>>' # <<last_processed_time, passes>>
    /\ UNCHANGED <<broker_vars, now, created, published, agent_vars,
                   life_vars, flow_vars, balance, daily_pnl, open_positions,
                   active_trades, trades_count, results, correlated_signals>>

----------------------------------------------------------------------------
\* Callers' arguments.  The broker treats agent ids alike and kinds alike, so
\* each specification draws its calls from a few representatives.

\* [sender, type, recipients] for senders S, kinds K and recipients lists R.
MessageArgs(S, K, R) == [sender : S, type : K, recipients : R]

\* Batches of one sender, as Agent._send_message_batch hands them over.
BatchArgs(S, K, R) ==
    UNION {SeqsUpTo(MessageArgs({s}, K, R), 1, MaxBatch) : s \in S}

\* Lists of kinds for subscribe / unsubscribe: one kind, or two different ones.
TypeLists(K) ==
    {<<k>> : k \in K} \cup {<<k, l>> : <<k, l>> \in {p \in K \X K : p[1] # p[2]}}

\* A broadcast, or a direct message to one agent of A.
ShortLists(A) == {<<>>} \cup {<<a>> : a \in A}

\* Recipients lists of the delivery specification: a broadcast, one agent, and
\* two entries (with and without the sender a1, and one agent twice).
RecipientLists ==
    ShortLists(Agents) \cup {<<"a1", "a2">>, <<"a2", "a3">>, <<"a3", "a3">>}

OneKind == {"SYSTEM_STATUS"}
TwoAgents == {"a1", "a2"}
Sender == {"a1"}

\* Delivery: three agents, one kind, messages of a1.
Next ==
    \/ \E a \in Agents : RegisterAgent(a)
    \/ \E a \in Agents : UnregisterAgent(a)
    \/ \E a \in Agents, types \in TypeLists(OneKind) : Subscribe(a, types)
    \/ \E a \in Agents, types \in TypeLists(OneKind) : Unsubscribe(a, types)
    \/ \E arg \in MessageArgs(Sender, OneKind, RecipientLists) :
          created < MaxMessages /\ Publish(arg)
    \/ \E args \in BatchArgs(Sender, OneKind, RecipientLists) :
          created + Len(args) <= MaxMessages /\ PublishBatch(args)

Spec == Init /\ [][Next]_vars

\* The subscriber cache: two agents, both kinds, broadcasts, the clock.
NextCache ==
    \/ \E a \in TwoAgents : RegisterAgent(a)
    \/ \E a \in TwoAgents : UnregisterAgent(a)
    \/ \E a \in TwoAgents, types \in TypeLists(Kinds) : Subscribe(a, types)
    \/ \E a \in TwoAgents, types \in TypeLists(Kinds) : Unsubscribe(a, types)
    \/ \E arg \in MessageArgs(TwoAgents, Kinds, {<<>>}) :
          created < MaxMessages /\ Publish(arg)
    \/ \E args \in BatchArgs(TwoAgents, Kinds, {<<>>}) :
          created + Len(args) <= MaxMessages /\ PublishBatch(args)
    \/ Tick

SpecCache == Init /\ [][NextCache]_vars

\* Ordering: two agents, one kind, MaxOrderMessages messages.
NextOrder ==
    \/ \E a \in TwoAgents : RegisterAgent(a)
    \/ \E a \in TwoAgents : UnregisterAgent(a)
    \/ \E a \in TwoAgents, types \in TypeLists(OneKind) : Subscribe(a, types)
    \/ \E a \in TwoAgents, types \in TypeLists(OneKind) : Unsubscribe(a, types)
    \/ \E arg \in MessageArgs(TwoAgents, OneKind, ShortLists(TwoAgents)) :
          created < MaxOrderMessages /\ Publish(arg)
    \/ \E args \in BatchArgs(TwoAgents, OneKind, ShortLists(TwoAgents)) :
          created + Len(args) <= MaxOrderMessages /\ PublishBatch(args)

SpecOrder == Init /\ [][NextOrder]_vars

\* Agents over the broker: two agents, one kind, batching off or on.
InitAgent ==
    /\ subscribers = <<>>
    /\ queues = <<>>
    /\ message_counter = 0
    /\ subscribers_cache = <<>>
    /\ cache_timestamps = <<>>
    /\ now = 0
    /\ created = 0
    /\ published = <<>>
    /\ batch_size \in BatchSizes
    /\ message_batch = <<>>
    /\ last_batch_time = <<>>
    /\ scheduled = <<>>
    /\ InitLife
    /\ InitFlow
    /\ InitDesk

NextAgent ==
    \/ \E a \in TwoAgents : AgentInit(a)
    \/ \E a \in TwoAgents, types \in TypeLists(OneKind) :
          SubscribeTo(a, types)
    \/ \E a \in TwoAgents, recipients \in ShortLists(TwoAgents) :
          created < MaxOrderMessages
              /\ SendMessage(a, "SYSTEM_STATUS", recipients)
    \/ \E a \in TwoAgents, i \in 1..MaxOrderMessages : ScheduledFlush(a, i)
    \/ Tick

SpecAgent == InitAgent /\ [][NextAgent]_vars

\* The trickle of an agent: it sends while the clock is below MaxTrickleTime,
\* so that the sleep of every task it creates ends within the clock's range.
\* Time passes, and a task whose sleep has ended is run by the event loop.
NextTrickle ==
    \/ \E a \in TwoAgents : AgentInit(a)
    \/ \E a \in TwoAgents, recipients \in ShortLists(TwoAgents) :
          created < MaxOrderMessages /\ now < MaxTrickleTime
              /\ SendMessage(a, "SYSTEM_STATUS", recipients)
    \/ \E a \in TwoAgents, i \in 1..MaxOrderMessages : ScheduledFlush(a, i)
    \/ Elapse(MaxTrickleTime)

FairTrickle ==
    /\ WF_vars(Elapse(MaxTrickleTime))
    /\ \A a \in TwoAgents, i \in 1..MaxOrderMessages :
          WF_vars(ScheduledFlush(a, i))

SpecTrickle == InitAgent /\ [][NextTrickle]_vars /\ FairTrickle

\* The lifecycle: the agents of LifeAgents are constructed, started and
\* stopped, their tasks run and are cancelled, their hooks send messages, and
\* a caller outside publishes direct messages to them.
LifeAgents == {"a1"}
Outside == {"a2"}

NextLife ==
    \/ \E a \in LifeAgents : AgentInit(a)
    \/ \E a \in LifeAgents, types \in TypeLists(OneKind) :
          SubscribeTo(a, types)
    \/ \E a \in LifeAgents : Start(a)
    \/ \E a \in LifeAgents, outcome \in Outcomes : SetupEnds(a, outcome)
    \/ \E a \in LifeAgents : Stop(a)
    \/ \E a \in LifeAgents : StopResumes(a)
    \/ \E a \in LifeAgents, outcome \in Outcomes : CleanupEnds(a, outcome)
    \/ \E a \in LifeAgents, outcome \in Outcomes : LoopStep(a, outcome)
    \/ \E a \in LifeAgents : LoopCancelled(a)
    \/ \E a \in LifeAgents : CancelTask(a)
    \/ \E a \in LifeAgents, recipients \in ShortLists(LifeAgents) :
          created < MaxLifeMessages
              /\ HookSends(a, "SYSTEM_STATUS", recipients)
    \/ \E arg \in MessageArgs(Outside, OneKind, ShortLists(LifeAgents)) :
          created < MaxLifeMessages /\ Publish(arg)
    \/ \E a \in LifeAgents, i \in 1..MaxLifeMessages : ScheduledFlush(a, i)
    \/ Tick

SpecLife == InitAgent /\ [][NextLife]_vars

\* What the event loop guarantees: a task that can run does run, a hook that
\* was entered ends, a sleep ends.  Nobody is bound to call start(), stop()
\* or cancel(), to publish or to let time pass.
FairLife ==
    \A a \in LifeAgents :
        /\ WF_vars(\E outcome \in Outcomes : LoopStep(a, outcome))
        /\ WF_vars(LoopCancelled(a))
        /\ WF_vars(\E outcome \in Outcomes : SetupEnds(a, outcome))
        /\ WF_vars(StopResumes(a))
        /\ WF_vars(\E outcome \in Outcomes : CleanupEnds(a, outcome))

SpecLifeFair == SpecLife /\ FairLife

\* The inbound side: two agents are constructed and started, their tasks
\* drain the inboxes, and a caller outside publishes direct messages.
Outsider == {"a3"}

NextLoop ==
    \/ \E a \in TwoAgents : AgentInit(a)
    \/ \E a \in TwoAgents : Start(a)
    \/ \E a \in TwoAgents, outcome \in Outcomes : SetupEnds(a, outcome)
    \/ \E a \in TwoAgents, outcome \in Outcomes : LoopStep(a, outcome)
    \/ \E arg \in MessageArgs(Outsider, OneKind, {<<a>> : a \in TwoAgents}) :
          created < MaxOrderMessages /\ Publish(arg)

FairLoop ==
    \A a \in TwoAgents :
        /\ WF_vars(\E outcome \in Outcomes : LoopStep(a, outcome))
        /\ WF_vars(\E outcome \in Outcomes : SetupEnds(a, outcome))

SpecLoop == InitAgent /\ [][NextLoop]_vars /\ FairLoop

\* Unregistration: two constructed agents, both kinds, messages of a1, and
\* callers that register and unregister the agents through the broker.
NextUnregister ==
    \/ \E a \in TwoAgents : AgentInit(a)
    \/ \E a \in TwoAgents : RegisterAgent(a)
    \/ \E a \in TwoAgents : UnregisterAgent(a)
    \/ \E a \in TwoAgents, types \in TypeLists(Kinds) : SubscribeTo(a, types)
    \/ \E arg \in MessageArgs(Sender, Kinds, ShortLists(TwoAgents)) :
          created < MaxMessages /\ Publish(arg)

SpecUnregister == Init /\ [][NextUnregister]_vars

\* The workflow: proposals reach Risk, its decisions reach Execution, and
\* Execution processes what it holds, while time passes.
EURUSD == <<"EUR", "USD">>
USDCHF == <<"USD", "CHF">>
EURGBP == <<"EUR", "GBP">>

ProposalIds == {"p1", "p2"}
ProposalSymbols == {EURUSD, <<"frxEURUSD">>}
Sizes == {100, 600}

\* TradeProposal.time_limit_seconds, in clock units.
time_limit_seconds == 1

\* The "proposal" of a trade_proposal message built at the present time.
ProposalInputs(ids, symbols, sizes) ==
    {TradeProposal(id, symbol, size, "PROPOSED", now + time_limit_seconds) :
        id \in ids, symbol \in symbols, size \in sizes}

NextWorkflow ==
    \/ AttachGateway
    \/ \E proposal_data \in
            ProposalInputs(ProposalIds, ProposalSymbols, Sizes)
                \cup {NoProposal} :
          Len(evaluations) < MaxProposals
              /\ EvaluateTradeProposal(proposal_data)
    \/ ExecHandleMessage
    \/ \E outcomes \in [DOMAIN approved_proposals -> GatewayOutcomes] :
          ProcessApprovedProposals(outcomes)
    \/ Elapse(MaxFlowTime)

SpecWorkflow == Init /\ [][NextWorkflow]_vars

\* What the processing loop guarantees: a message in the inbox is handled,
\* and process_cycle is called again, so a stored approval is processed.
\* Nobody is bound to send proposals, to attach a gateway or to let time
\* pass.
FairWorkflow ==
    /\ WF_vars(ExecHandleMessage)
    /\ WF_vars(\E outcomes \in [DOMAIN approved_proposals -> GatewayOutcomes] :
                  ProcessApprovedProposals(outcomes))

SpecWorkflowFair == SpecWorkflow /\ FairWorkflow

\* Asset availability: AssetSelection broadcasts its lists, Execution asks
\* for them and executes approved proposals on EUR/USD.
AssetUpdates ==
    {<<<<USDCHF>>, <<USDCHF>>>>, <<<<USDCHF, EURGBP>>, <<USDCHF, EURGBP>>>>,
     <<<<EURUSD>>, <<EURUSD>>>>, <<<<USDCHF>>, <<>>>>}

Events(event) ==
    {i \in DOMAIN outbox : outbox[i].content.event = event}

NextAssets ==
    \/ AttachGateway
    \/ \E proposal_data \in ProposalInputs({"p1"}, {EURUSD}, {100}) :
          Len(evaluations) < MaxProposals
              /\ EvaluateTradeProposal(proposal_data)
    \/ ExecHandleMessage
    \/ \E outcomes \in [DOMAIN approved_proposals -> GatewayOutcomes] :
          ProcessApprovedProposals(outcomes)
    \/ \E i \in 1..(MaxProposals + MaxUpdates + MaxRequests) :
          HandleSystemStatus(i)
    \/ Cardinality(Events("asset_availability_request")) < MaxRequests
          /\ RequestAvailableAssets
    \/ \E update \in AssetUpdates :
          Cardinality(Events("asset_availability_update")) < MaxUpdates
              /\ BroadcastAssetStatus(update[1], update[2])
    \/ AssetHandleMessage

SpecAssets == Init /\ [][NextAssets]_vars

\* The books: trade_execution and trade_result messages reach Risk, and
\* trade_result messages reach Strategy.
ExecutionIds == {"e1", "e2"}
ProfitLosses == {-50, 50}

NextBooks ==
    \/ \E execution_id \in ExecutionIds :
          execution_id \notin open_positions
              /\ UpdatePortfolioWithTrade(execution_id)
    \/ \E agent \in {"risk", "strategy"}, trade_id \in ExecutionIds,
             profit_loss \in ProfitLosses :
          Len(results) < MaxResults
              /\ HandleTradeResult(agent, trade_id, profit_loss)

SpecBooks == Init /\ [][NextBooks]_vars

\* The periodic agents: process_cycle is called again and again while time
\* passes, and Strategy comes to hold a correlated signal.
NextCycle ==
    \/ \E agent \in PeriodicAgents :
          Len(passes[agent]) < MaxPasses /\ ProcessCycle(agent)
    \/ correlated_signals < MaxSignals /\ CorrelateSignals
    \/ Elapse(MaxCycleTime)

SpecCycle == Init /\ [][NextCycle]_vars

\* Subscription operations: two constructed agents, both kinds, messages of
\* a1, and callers that register, unregister, subscribe and unsubscribe the
\* agents through the broker.
NextFrame ==
    \/ \E a \in TwoAgents : AgentInit(a)
    \/ \E a \in TwoAgents : RegisterAgent(a)
    \/ \E a \in TwoAgents : UnregisterAgent(a)
    \/ \E a \in TwoAgents, types \in TypeLists(Kinds) : Subscribe(a, types)
    \/ \E a \in TwoAgents, types \in TypeLists(Kinds) : Unsubscribe(a, types)
    \/ \E arg \in MessageArgs(Sender, Kinds, ShortLists(TwoAgents)) :
          created < MaxMessages /\ Publish(arg)

SpecFrame == Init /\ [][NextFrame]_vars

----------------------------------------------------------------------------
\* Vocabulary of the properties.

Registered == DOMAIN queues

SubscribedTo(msg_type) ==
    IF msg_type \in DOMAIN subscribers THEN subscribers[msg_type] ELSE {}

SubscribedToAfter(msg_type) ==
    IF msg_type \in DOMAIN subscribers' THEN subscribers'[msg_type] ELSE {}

Inbox(a) == IF a \in DOMAIN queues THEN queues[a] ELSE <<>>
InboxAfter(a) == IF a \in DOMAIN queues' THEN queues'[a] ELSE <<>>

Count(x, seq) == Cardinality({i \in DOMAIN seq : seq[i] = x})

\* How many times message m is put in a's inbox by the step.
Enqueued(m, a) == Count(m, InboxAfter(a)) - Count(m, Inbox(a))

\* The messages handed to the broker by the step.
NewMessages ==
    {published'[i].msg : i \in (Len(published) + 1)..Len(published')}

\* The agents a broadcast is due to, from the live tables before the step.
Subscribers(m) == (SubscribedTo(m.type) \cap Registered) \ {m.sender}

\* Where the processing task of a stands; "None" before a is constructed.
LoopAt(a) == IF a \in Constructed THEN loop[a] ELSE "None"

\* Position of a message in the order of publication, and its broker call.
PubIndex(m) == CHOOSE i \in DOMAIN published : published[i].msg = m
CallOf(m) == published[PubIndex(m)].call

----------------------------------------------------------------------------
\* C1. FIFO per pair: in every inbox, the messages of one sender stand in the
\* order in which they were handed to the broker (order of the publish and
\* publish_batch calls, and order inside each batch).
C1_FifoPerPair ==
    \A r \in Registered : \A i, j \in DOMAIN queues[r] :
        (i < j /\ queues[r][i].sender = queues[r][j].sender)
            => PubIndex(queues[r][i]) <= PubIndex(queues[r][j])

\* An inbox holding three messages of one sender, two of them from one batch.
C1_Witness ==
    \E r \in Registered :
        /\ Len(queues[r]) = 3
        /\ \A i \in 1..3 : queues[r][i].sender = queues[r][1].sender
        /\ \E i, j \in 1..3 : i # j /\ CallOf(queues[r][i]) = CallOf(queues[r][j])
        /\ \E i, j \in 1..3 : CallOf(queues[r][i]) # CallOf(queues[r][j])

\* C8. Batch contiguity: in every inbox the messages of one publish_batch call
\* stand in the batch's order, with no message of another call between them.
C8_BatchContiguous ==
    \A r \in Registered : \A i, j \in DOMAIN queues[r] :
        (i < j /\ CallOf(queues[r][i]) = CallOf(queues[r][j]))
            => /\ PubIndex(queues[r][i]) < PubIndex(queues[r][j])
               /\ \A k \in i..j : CallOf(queues[r][k]) = CallOf(queues[r][i])

\* An inbox where a batch of two follows a message of an earlier call.
C8_Witness ==
    \E r \in Registered :
        /\ Len(queues[r]) = 3
        /\ CallOf(queues[r][1]) # CallOf(queues[r][2])
        /\ CallOf(queues[r][2]) = CallOf(queues[r][3])

\* C2. No self-delivery: a broadcast is never in the inbox of its own sender,
\* subscribed or not and whatever the subscriber cache holds.
C2_NoSelfBroadcast ==
    \A a \in Registered : \A i \in DOMAIN queues[a] :
        queues[a][i].recipients = <<>> => queues[a][i].sender # a

\* A broadcast reached the other agent while its sender, registered and
\* subscribed to the kind, is in the cached snapshot the broker holds.
C2_Witness ==
    \E a \in Registered : \E i \in DOMAIN queues[a] :
        LET m == queues[a][i]
        IN /\ m.recipients = <<>>
           /\ m.sender \in Registered \cap SubscribedTo(m.type)
           /\ m.type \in DOMAIN subscribers_cache
           /\ m.sender \in subscribers_cache[m.type]
           /\ queues[m.sender] = <<>>

\* C3. Broadcast delivery set: a step that hands a broadcast to the broker
\* puts it exactly once in the inbox of every agent that was registered and
\* subscribed to its kind and is not its sender, and in no other inbox.
C3_BroadcastDeliverySet ==
    [][\A m \in NewMessages : m.recipients = <<>> =>
          \A a \in Agents :
              Enqueued(m, a) = IF a \in Subscribers(m) THEN 1 ELSE 0]_vars

\* A broadcast stands in the inboxes of two agents and not in that of its
\* sender, who is registered and subscribed as well.
C3_Witness ==
    \E i \in DOMAIN published :
        LET m == published[i].msg
        IN /\ m.recipients = <<>>
           /\ m.sender \in Registered \cap SubscribedTo(m.type)
           /\ Count(m, Inbox(m.sender)) = 0
           /\ Cardinality({a \in Agents : Count(m, Inbox(a)) = 1}) = 2

\* C4. Direct addressing: a step that hands a message with recipients to the
\* broker puts it in the inboxes of exactly the listed agents that are
\* registered; when every message of the call is direct, the set of inboxes,
\* the subscriptions and the subscriber cache are as before.
C4_DirectAddressing ==
    [][/\ \A m \in NewMessages : m.recipients # <<>> =>
             \A a \in Agents :
                 (Enqueued(m, a) > 0) <=>
                     (a \in Range(m.recipients) \cap Registered)
       /\ (NewMessages # {} /\ \A m \in NewMessages : m.recipients # <<>>)
             => /\ DOMAIN queues' = DOMAIN queues
                /\ subscribers' = subscribers
                /\ subscribers_cache' = subscribers_cache
                /\ cache_timestamps' = cache_timestamps
                /\ \A a \in Registered :
                      Len(queues'[a]) > Len(queues[a]) =>
                          \E m \in NewMessages : a \in Range(m.recipients)]_vars

\* A direct message to a registered and an unregistered agent reached the
\* first, while a registered subscriber of its kind that is not listed has
\* nothing.
C4_Witness ==
    \E i \in DOMAIN published :
        LET m == published[i].msg
        IN /\ Len(m.recipients) = 2
           /\ m.recipients[1] \in Registered
           /\ m.recipients[2] \notin Registered
           /\ Count(m, Inbox(m.recipients[1])) = 1
           /\ \E a \in (Registered \cap SubscribedTo(m.type)) \ {m.sender} :
                 a \notin Range(m.recipients) /\ Inbox(a) = <<>>

\* C5 as claimed: no inbox ever holds a message of its own owner.
C5_NeverToSender ==
    \A a \in Registered : \A i \in DOMAIN queues[a] : queues[a][i].sender # a

\* C5, amended. A step that hands a message to the broker puts it in the
\* sender's own inbox exactly when the message is direct, lists the sender
\* among its recipients and the sender is registered; a broadcast never.
C5_SenderOnlyWhenListed ==
    [][\A m \in NewMessages :
          (Enqueued(m, m.sender) > 0) <=>
              /\ m.recipients # <<>>
              /\ m.sender \in Range(m.recipients) \cap Registered]_vars

\* A direct message that lists its sender stands in the sender's inbox, and a
\* broadcast of the same sender does not.
C5_Witness ==
    \E a \in Registered :
        /\ \E i \in DOMAIN queues[a] :
              queues[a][i].sender = a /\ a \in Range(queues[a][i].recipients)
        /\ \E i \in DOMAIN published :
              /\ published[i].msg.sender = a
              /\ published[i].msg.recipients = <<>>
              /\ Count(published[i].msg, queues[a]) = 0
              /\ \E b \in Registered : Count(published[i].msg, queues[b]) = 1

\* C6. Subscription hygiene: unsubscribe(a, [.. K ..]) leaves a outside the
\* subscription set of K and outside any snapshot cached for K; only a
\* subscribe(a, [.. K ..]) puts a back; and a broadcast of kind K handed to
\* the broker while a is outside the set is not put in a's inbox, whether the
\* cache holds a fresh snapshot for K, an expired one or none.
C6_SubscriptionHygiene ==
    [][/\ \A a \in TwoAgents, types \in TypeLists(Kinds) :
             Unsubscribe(a, types) =>
                 \A k \in Range(types) :
                     /\ a \notin SubscribedToAfter(k)
                     /\ k \in DOMAIN subscribers_cache' =>
                            a \notin subscribers_cache'[k]
       /\ \A a \in TwoAgents, k \in Kinds :
             (a \notin SubscribedTo(k) /\ a \in SubscribedToAfter(k))
                 => \E types \in TypeLists(Kinds) :
                        k \in Range(types) /\ Subscribe(a, types)
       /\ \A m \in NewMessages : \A a \in TwoAgents :
             (m.recipients = <<>> /\ a \notin SubscribedTo(m.type))
                 => Enqueued(m, a) = 0]_vars

\* After an unsubscribe: an agent that holds an earlier broadcast of a kind is
\* still registered and no longer subscribed, and a later broadcast of the
\* kind by the other agent is not in its inbox.
C6_Witness ==
    \E a \in Registered : \E i, j \in DOMAIN published :
        LET m == published[i].msg
            n == published[j].msg
        IN /\ i < j
           /\ m.type = n.type /\ m.recipients = <<>> /\ n.recipients = <<>>
           /\ a # n.sender
           /\ Count(m, queues[a]) = 1
           /\ Count(n, queues[a]) = 0
           /\ a \notin SubscribedTo(n.type)

\* C7. Subscriber-cache coherence: a cached snapshot for a kind equals the
\* subscription set of the kind, and every broadcast is put in the inboxes the
\* live subscription index gives.
C7_CacheCoherent ==
    /\ [](\A k \in DOMAIN subscribers_cache :
             subscribers_cache[k] = SubscribedTo(k))
    /\ [][\A m \in NewMessages : m.recipients = <<>> =>
             {a \in Agents : Enqueued(m, a) > 0} = Subscribers(m)]_vars

\* A snapshot that is in use (not expired) holds a subscriber, while the
\* snapshot of the other kind has expired.
C7_Witness ==
    \E k, l \in DOMAIN subscribers_cache :
        /\ k # l
        /\ subscribers_cache[k] # {}
        /\ CacheValid(Broker, k, now, cache_timeout)
        /\ ~CacheValid(Broker, l, now, cache_timeout)

\* C10. register_agent is idempotent: for a registered id it returns the
\* inbox the broker holds, with its pending messages, and changes nothing; for
\* a new id it returns an empty inbox and leaves the subscriptions, the cache
\* and the other inboxes as they were.
C10_RegisterIdempotent ==
    [][\A a \in Agents : RegisterAgent(a) =>
          IF a \in Registered
          THEN /\ RegisterReturn(Broker, a) = queues[a]
               /\ queues' = queues
               /\ UNCHANGED <<subscribers, message_counter, subscribers_cache,
                              cache_timestamps>>
          ELSE /\ RegisterReturn(Broker, a) = <<>>
               /\ queues'[a] = <<>>
               /\ DOMAIN queues' = DOMAIN queues \cup {a}
               /\ \A o \in Registered : queues'[o] = queues[o]
               /\ UNCHANGED <<subscribers, message_counter, subscribers_cache,
                              cache_timestamps>>]_vars

\* A registered agent with two pending messages, next to an agent that is not
\* registered: both cases of register_agent are at hand.
C10_Witness ==
    /\ \E a \in Registered : Len(queues[a]) = 2
    /\ Registered # Agents

\* The messages built by send_message so far: those handed to the broker and
\* those waiting in an outbound batch.
SentMessages ==
    {published[i].msg : i \in DOMAIN published}
        \cup UNION {Range(message_batch[a]) : a \in Constructed}

\* C9. Message ids are unique: two distinct messages built by send_message
\* carry different ids, and a later message carries a greater id.
C9_UniqueIds ==
    \A m, n \in SentMessages : m.uid < n.uid => m.id[2] < n.id[2]

\* C11. After unregister_agent(a): a has no inbox, is in no subscription set
\* and in no cached snapshot; only a registration gives a an inbox again; and
\* a message handed to the broker while a has no inbox is put nowhere for a,
\* neither in the broker nor in the queue the Agent object of a still holds.
C11_UnregisterRemoves ==
    [][\A a \in Agents :
          /\ UnregisterAgent(a) =>
                /\ a \notin DOMAIN queues'
                /\ \A k \in Kinds : a \notin SubscribedToAfter(k)
                /\ \A k \in DOMAIN subscribers_cache' :
                      a \notin subscribers_cache'[k]
          /\ (a \notin Registered /\ a \in DOMAIN queues')
                => RegisterAgent(a) \/ AgentInit(a)
          /\ (a \notin Registered /\ NewMessages # {})
                => /\ a \notin DOMAIN queues'
                   /\ \A m \in NewMessages : Enqueued(m, a) = 0
                   /\ detached' = detached]_vars

\* An agent that received a broadcast was unregistered: the queue it holds
\* keeps that broadcast, and a later broadcast of the same kind by the other
\* agent is with nobody.
C11_Witness ==
    \E a \in DOMAIN detached \ Registered :
        \E i, j \in DOMAIN published :
            LET m == published[i].msg
                n == published[j].msg
            IN /\ i < j
               /\ m.recipients = <<>> /\ m \in Range(detached[a])
               /\ n.recipients = <<>> /\ n.type = m.type /\ n.sender # a
               /\ n \notin Range(detached[a])

\* C12. Lifecycle idempotence: start() on an agent whose running flag is set
\* changes nothing (no second setup(), no second processing task), and stop()
\* on an agent whose running flag is clear changes nothing (no cleanup(), no
\* unregister_agent): two calls in a row end in the state of one call.
C12_LifecycleIdempotent ==
    [][\A a \in LifeAgents :
          /\ (Start(a) /\ running[a]) => UNCHANGED vars
          /\ (Stop(a) /\ ~running[a]) => UNCHANGED vars]_vars

\* An agent was started and handled a message, then was stopped: start() had
\* returned with the task running, and stop() has returned.
C12_Witness ==
    \E a \in LifeAgents \cap Constructed :
        /\ phase[a] = "stopped" /\ ~running[a]
        /\ setups[a] = 1 /\ cleanups[a] = 1
        /\ handled[a] # <<>>
        /\ a \notin Registered

\* C13 as claimed: once stop() has returned, the outbound batch of the agent
\* is empty and every message it passed to send_message is with the broker.
C13_StopFlushes ==
    \A a \in LifeAgents \cap Constructed :
        phase[a] = "stopped" => message_batch[a] = <<>>

\* C14 as claimed: the lifecycle only moves forward; once stop() has called
\* cleanup() the agent is never running again, has no live processing task
\* and setup() is not called a second time.
C14_NoRestart ==
    \A a \in LifeAgents \cap Constructed :
        cleanups[a] > 0 =>
            ~running[a] /\ loop[a] \in Finished /\ setups[a] <= 1

C16_StopLetsHookComplete ==
    [][\A a \in LifeAgents \cap Constructed :
          aborted'[a] # aborted[a] => phase[a] # "stopping"]_vars

\* C18 as claimed: one iteration of the loop takes at most batch_size
\* messages from the inbox.
C18_BoundedDrain ==
    \A a \in LifeAgents \cap Constructed : drained[a] <= batch_size

\* C17 as claimed: once the processing task of an agent is cancelled, the
\* agent's inbox and subscriptions are eventually removed from the broker.
C17_CancelCleansUp ==
    \A a \in LifeAgents :
        (LoopAt(a) = "cancelled") ~> (a \notin Registered)

\* C20. process_cycle is invoked exactly once in every iteration of the loop
\* (after the drain, and after the sleep of an idle iteration); when it raises
\* an Exception the task goes to its one-second sleep with the agent still
\* running, and the next iteration drains the inbox again; unless the task is
\* cancelled or the agent stopped, process_cycle is then invoked again.
C20_CycleOncePerIteration ==
    /\ [](\A a \in LifeAgents \cap Constructed :
             /\ cycles[a] <= 1
             /\ loop[a] \in {"cycle", "pause"} => cycles[a] = 1
             /\ loop[a] \in {"handle", "sleep"} => cycles[a] = 0)
    /\ [][\A a \in LifeAgents \cap Constructed :
             /\ (loop[a] = "cycle" /\ LoopStep(a, "raises")) =>
                   /\ loop'[a] = "pause"
                   /\ running'[a] = running[a]
             /\ (loop[a] = "pause" /\ running[a] /\ LoopStep(a, "returns")) =>
                   IF MessageQueue(a) # <<>>
                   THEN /\ loop'[a] = "handle"
                        /\ handled'[a] = Append(handled[a], Head(MessageQueue(a)))
                   ELSE loop'[a] = "sleep"]_vars
    /\ \A a \in LifeAgents :
          (LoopAt(a) = "pause") ~> (LoopAt(a) \in {"cycle", "done", "cancelled"})

\* process_cycle raised in an iteration that had handled a message; the task
\* sleeps, the agent is running and a message waits in its inbox.
C20_Witness ==
    \E a \in LifeAgents \cap Constructed :
        /\ loop[a] = "pause"
        /\ running[a]
        /\ drained[a] = 1
        /\ MessageQueue(a) # <<>>

\* The messages of an agent's queue and of its history, by uid.
Waiting(a, uid) == \E m \in Range(MessageQueue(a)) : m.uid = uid
Handled(a, uid) ==
    a \in Constructed /\ \E m \in Range(handled[a]) : m.uid = uid

\* C19. Error isolation of handle_message: a message is passed to
\* handle_message once and is not in the inbox afterwards; when the handler
\* raises, the task goes on (next message, or the rest of the iteration), the
\* running flags, the lifecycle and the tasks of all agents and the broker's
\* tables stay as they are; every message waiting in the inbox of an agent
\* whose task is live is eventually passed to handle_message, and a task that
\* is handling a message eventually invokes process_cycle.
C19_ErrorIsolation ==
    /\ [](\A a \in TwoAgents \cap Constructed :
             /\ \A i, j \in DOMAIN handled[a] :
                   i # j => handled[a][i] # handled[a][j]
             /\ \A i \in DOMAIN handled[a] :
                   handled[a][i] \notin Range(MessageQueue(a)))
    /\ [][\A a \in TwoAgents \cap Constructed :
             (loop[a] = "handle" /\ LoopStep(a, "raises")) =>
                 /\ running' = running
                 /\ phase' = phase
                 /\ loop'[a] \in {"handle", "sleep", "cycle"}
                 /\ \A o \in Constructed \ {a} :
                       loop'[o] = loop[o] /\ handled'[o] = handled[o]
                 /\ DOMAIN queues' = DOMAIN queues
                 /\ \A o \in Registered \ {a} : queues'[o] = queues[o]
                 /\ subscribers' = subscribers
                 /\ IF MessageQueue(a) # <<>>
                    THEN /\ loop'[a] = "handle"
                         /\ handled'[a] =
                                Append(handled[a], Head(MessageQueue(a)))
                    ELSE handled'[a] = handled[a]]_vars
    /\ \A a \in TwoAgents, uid \in 1..MaxOrderMessages :
          (LoopAt(a) \in Live /\ Waiting(a, uid))
              ~> (Handled(a, uid) \/ LoopAt(a) \notin Live)
    /\ \A a \in TwoAgents :
          (LoopAt(a) = "handle") ~> (LoopAt(a) = "cycle" \/ LoopAt(a) \notin Live)

\* In one iteration an agent was passed three messages, the handler raised
\* for one of them, and process_cycle is now running; the other agent is
\* running too.
C19_Witness ==
    \E a \in TwoAgents \cap Constructed :
        /\ loop[a] = "cycle"
        /\ Len(handled[a]) = 3
        /\ drained[a] = 3
        /\ processed[a] = 2
        /\ \E o \in Constructed \ {a} : running[o] /\ loop[o] \in Live


----------------------------------------------------------------------------
\* Outbound batching: the flush paths.

\* The message with uid `uid` is in the outbound buffer of a.
Buffered(a, uid) ==
    /\ a \in Constructed
    /\ \E i \in DOMAIN message_batch[a] : message_batch[a][i].uid = uid

\* The message with uid `uid` has been handed to the broker.
HandedOver(uid) == \E i \in DOMAIN published : published[i].msg.uid = uid

\* C21: with batching enabled, whenever send_message has returned the buffer
\* is shorter than batch_size and, if it is not empty, a _schedule_batch_send
\* task is pending; and every buffered message is eventually handed to the
\* broker, with no further send_message call needed.
C21_TrickleFlush ==
    /\ [](batch_size > 1 =>
            \A a \in Constructed :
               /\ Len(message_batch[a]) < batch_size
               /\ message_batch[a] # <<>> => scheduled[a] # <<>>)
    /\ \A a \in TwoAgents, uid \in 1..MaxOrderMessages :
          Buffered(a, uid) ~> HandedOver(uid)

\* A message that waited in the buffer was handed over by the task alone: it
\* is the only message created, and the flush that took it happened at
\* MaxTrickleTime, when no send_message is called any more.
C21_Witness ==
    /\ batch_size > 1
    /\ created = 1
    /\ HandedOver(1)
    /\ \E a \in Constructed :
          /\ published[1].msg.sender = a
          /\ last_batch_time[a] = MaxTrickleTime
          /\ scheduled[a] = <<>>


\* What a has taken from its inbox so far, followed by what waits in it.
Received(a) == handled[a] \o MessageQueue(a)

\* The messages buffered by all agents.
BufferedCount ==
    LET RECURSIVE Sum(_)
        Sum(S) == IF S = {} THEN 0
                  ELSE LET a == CHOOSE x \in S : TRUE
                       IN Len(message_batch[a]) + Sum(S \ {a})
    IN Sum(Constructed)

\* C22: whichever of the flush paths run (size trigger, timer task, idle
\* branch of the loop, stop), every message accepted by send_message is in the
\* buffer or was handed to the broker, never both and never twice; one agent's
\* messages are handed over in the order of the send_message calls, and a
\* receiver holds them in that order.
C22_FlushOnce ==
    /\ \A i, j \in DOMAIN published :
          published[i].msg.uid = published[j].msg.uid => i = j
    /\ \A a \in Constructed, uid \in 1..created :
          ~(Buffered(a, uid) /\ HandedOver(uid))
    /\ Len(published) + BufferedCount = created
    /\ \A i, j \in DOMAIN published :
          (i < j /\ published[i].msg.sender = published[j].msg.sender)
              => published[i].msg.uid < published[j].msg.uid
    /\ \A r \in Constructed : \A i, j \in DOMAIN Received(r) :
          (i < j /\ Received(r)[i].sender = Received(r)[j].sender)
              => Received(r)[i].uid < Received(r)[j].uid

\* Two messages of a went out in two flushes and a holds both; stop() has
\* flushed, the buffer is empty and a timer task is still to wake.
C22_Witness ==
    \E a \in Constructed :
        /\ batch_size > 1
        /\ phase[a] = "stopping"
        /\ message_batch[a] = <<>>
        /\ scheduled[a] # <<>>
        /\ Len(Received(a)) = 2
        /\ \A i \in 1..2 : Received(a)[i].sender = a
        /\ CallOf(Received(a)[1]) # CallOf(Received(a)[2])


----------------------------------------------------------------------------
\* The trade workflow.

\* The status a workflow message announces for its proposal.
StatusOf(message) ==
    CASE message.type = "TRADE_APPROVAL" -> "approved"
      [] message.type = "TRADE_REJECTION" -> "rejected"
      [] message.type = "TRADE_EXECUTION" -> "executed"
      [] message.type = "TRADE_RESULT" -> "closed"
      [] OTHER -> None

\* The statuses announced for proposal p, in the order of the messages.
StatusSeq(p) ==
    LET RECURSIVE From(_)
        From(i) ==
            IF i > Len(outbox) THEN <<>>
            ELSE (IF outbox[i].content.proposal_id = p
                        /\ StatusOf(outbox[i]) # None
                  THEN <<StatusOf(outbox[i])>>
                  ELSE <<>>) \o From(i + 1)
    IN From(1)

\* The legal paths after "proposed".
LegalPaths ==
    {<<"approved", "executed", "closed">>, <<"approved", "expired">>,
     <<"rejected">>}

IsPrefix(s, t) == Len(s) <= Len(t) /\ s = SubSeq(t, 1, Len(s))

\* The calls of execute_trade for proposal p that called place_order.
Orders(p) ==
    {i \in DOMAIN attempts :
        attempts[i].proposal_id = p /\ attempts[i].placed # NoSymbol}

\* C23: for every proposal id, the statuses announced are a prefix of a legal
\* path: approved, executed, closed; approved, expired; or rejected.  No
\* proposal gets an approval and a rejection.
C23_ProposalMonotonic ==
    \A p \in ProposalIds :
        \E path \in LegalPaths : IsPrefix(StatusSeq(p), path)

\* C24: Execution calls place_order, and emits trade_execution, only for a
\* proposal id for which it received a trade_approval before, which Risk had
\* sent.
C24_ExecutionOnlyIfApproved ==
    /\ \A i \in DOMAIN attempts :
          attempts[i].placed # NoSymbol =>
              \E k \in 1..attempts[i].seen :
                  received[k].proposal_id = attempts[i].proposal_id
    /\ \A k \in DOMAIN received :
          \E j \in DOMAIN outbox :
              /\ outbox[j].type = "TRADE_APPROVAL"
              /\ outbox[j].content.proposal_id = received[k].proposal_id
    /\ \A j \in DOMAIN outbox :
          outbox[j].type = "TRADE_EXECUTION" =>
              \E k \in DOMAIN received :
                  received[k].proposal_id = outbox[j].content.proposal_id

\* Execution has been given an approval and a rejection, of different
\* proposals, and has placed an order for the approved one only.
C24_Witness ==
    \E p, q \in ProposalIds :
        /\ p # q
        /\ StatusSeq(p) = <<"approved">>
        /\ StatusSeq(q) = <<"rejected">>
        /\ exec_read = Len(outbox)
        /\ Orders(p) # {}
        /\ Orders(q) = {}

\* C25: for every trade_proposal message Risk handles it emits exactly one
\* decision, whatever path evaluate_trade_proposal takes.
C25_OneDecision ==
    \A i \in DOMAIN evaluations : evaluations[i].decisions = 1

\* C26: an approval that reaches Execution after the proposal's expiry_time
\* is discarded: an order is placed only for a proposal of which an approval
\* arrived in time, and without an order there is no trade_execution.
C26_ExpiredApprovalDiscarded ==
    /\ \A i \in DOMAIN attempts :
          attempts[i].placed # NoSymbol =>
              \E k \in 1..attempts[i].seen :
                  /\ received[k].proposal_id = attempts[i].proposal_id
                  /\ received[k].time <= received[k].expiry_time
    /\ \A j \in DOMAIN outbox :
          outbox[j].type \in {"TRADE_EXECUTION", "TRADE_RESULT"} =>
              \E k \in DOMAIN received :
                  /\ received[k].proposal_id = outbox[j].content.proposal_id
                  /\ received[k].time <= received[k].expiry_time

\* C28: of two trade_proposal messages with one proposal id the second gets
\* no decision, and Execution places at most one order and emits at most one
\* trade_execution for a proposal id.
C28_DuplicateIgnored ==
    /\ \A i, j \in DOMAIN evaluations :
          (i < j /\ evaluations[i].proposal_id # None
                 /\ evaluations[i].proposal_id = evaluations[j].proposal_id)
              => evaluations[j].decisions = 0
    /\ \A p \in ProposalIds :
          /\ Cardinality(Orders(p)) <= 1
          /\ Cardinality({j \in DOMAIN outbox :
                            /\ outbox[j].type = "TRADE_EXECUTION"
                            /\ outbox[j].content.proposal_id = p}) <= 1

\* The two symbols have a currency in common.
ShareCurrency(s, t) == Range(s) \cap Range(t) # {}

\* C29: when Execution holds a cached availability in which the proposal's
\* symbol is not available, the order is placed on a recommended asset that
\* shares a currency with the symbol, if there is one, and no order is
\* placed if there is none.
C29_FallbackSymbol ==
    \A i \in DOMAIN attempts :
        LET a == attempts[i]
            sharing == {k \in DOMAIN a.recommended :
                           ShareCurrency(a.symbol, a.recommended[k])}
        IN (a.client # None /\ a.available # <<>>
                 /\ a.symbol \notin Range(a.available))
              => IF sharing = {}
                 THEN a.placed = NoSymbol
                 ELSE \E k \in sharing : a.placed = a.recommended[k]

\* The asset_availability_request messages AssetSelection has handled.
RequestsHandled ==
    {i \in Events("asset_availability_request") : i <= asset_read}

\* C30: for every asset_availability_request AssetSelection has handled
\* there is one asset_availability_response, addressed to the sender of the
\* request alone; asset_availability_update messages are broadcasts.
C30_AvailabilityResponse ==
    /\ \A i \in RequestsHandled :
          Cardinality({j \in Events("asset_availability_response") :
                          outbox[j].recipients = <<outbox[i].sender>>}) = 1
    /\ \A j \in Events("asset_availability_response") :
          \E i \in RequestsHandled :
              outbox[j].recipients = <<outbox[i].sender>>
    /\ \A j \in Events("asset_availability_update") :
          outbox[j].recipients = <<>>


\* C40. Frame of the subscription operations: subscribe and unsubscribe leave
\* every inbox and the set of registered ids as they were, and
\* unregister_agent(a) leaves the inbox and the subscription memberships of
\* every other agent as they were.
C40_SubscriptionFrame ==
    [][/\ \A a \in Agents, types \in TypeLists(Kinds) :
             Subscribe(a, types) \/ Unsubscribe(a, types)
                 => queues' = queues
       /\ \A a \in Agents :
             UnregisterAgent(a) =>
                 \A b \in Agents \ {a} :
                     /\ b \in DOMAIN queues' <=> b \in Registered
                     /\ InboxAfter(b) = Inbox(b)
                     /\ \A k \in Kinds :
                           b \in SubscribedToAfter(k) <=> b \in SubscribedTo(k)
      ]_vars

\* An agent holds a broadcast in its inbox; a later message reached another
\* agent, which was unregistered after that; the first agent unsubscribed
\* from the broadcast's kind, stays subscribed to another kind, and its inbox
\* still holds the broadcast.
C40_Witness ==
    \E a \in DOMAIN detached \ Registered, b \in Registered :
        \E m \in Range(Inbox(b)), n \in Range(detached[a]) :
            /\ a # b
            /\ m.recipients = <<>>
            /\ n.uid > m.uid
            /\ b \notin SubscribedTo(m.type)
            /\ \E k \in Kinds : b \in SubscribedTo(k)


\* The approvals of proposal p that Execution stored, as indices of received.
Approvals(p) == {k \in DOMAIN received : received[k].proposal_id = p}

\* C39. At most one order per stored approval: a pass of
\* process_approved_proposals leaves approved_proposals empty whatever the
\* attempts gave, and between two calls of execute_trade for the same
\* proposal id a new approval of that id was stored, so that an attempt that
\* failed is not repeated.
C39_OneOrderPerApproval ==
    [][(\E outcomes \in [DOMAIN approved_proposals -> GatewayOutcomes] :
            ProcessApprovedProposals(outcomes))
        => /\ approved_proposals' = <<>>
           /\ \A i, j \in DOMAIN attempts' :
                 (i < j /\ attempts'[i].proposal_id = attempts'[j].proposal_id)
                     => \E k \in DOMAIN received' :
                           /\ received'[k].proposal_id
                                  = attempts'[i].proposal_id
                           /\ attempts'[i].seen < k
                           /\ k <= attempts'[j].seen
      ]_vars

\* The gateway refused the order of one proposal; a later pass executed
\* another proposal and did not try the refused one again.
C39_Witness ==
    /\ approved_proposals = <<>>
    /\ \E i, j \in DOMAIN attempts :
          /\ i < j
          /\ attempts[i].placed # NoSymbol
          /\ attempts[i].outcome = "refused"
          /\ attempts[j].proposal_id # attempts[i].proposal_id
          /\ attempts[j].seen > attempts[i].seen
          /\ attempts[j].placed # NoSymbol


\* C38. A running agent has a processing loop and reads the inbox the broker
\* writes to: whenever the running flag of an agent is set and no start() of
\* it is under way, a processing task exists for it, its id is registered,
\* and the broker's inbox of that id is the queue the agent holds.
C38_RunningHasLoop ==
    \A a \in Constructed :
        (running[a] /\ phase[a] # "setup")
            => /\ loop[a] # "None"
               /\ a \in Registered
               /\ a \notin DOMAIN detached


\* The trade_execution messages for proposal p with the given status.
Executions(p, status) ==
    {i \in DOMAIN outbox :
        /\ outbox[i].type = "TRADE_EXECUTION"
        /\ outbox[i].content.proposal_id = p
        /\ outbox[i].content.status = status}

\* The approval that attempt i executed: the last one of its proposal id
\* that Execution stored before the attempt.
ApprovalOf(i) ==
    LET before == {k \in Approvals(attempts[i].proposal_id) :
                      k <= attempts[i].seen}
    IN received[CHOOSE k \in before : \A l \in before : l <= k]

\* C33. Expired proposals are announced: when Execution processes an approved
\* proposal that it stored in time and whose deadline has passed since, it
\* places no order for it and has emitted one trade_execution with status
\* expired for its id; the proposal is no longer pending.
C33_ExpiredAnnounced ==
    \A i \in DOMAIN attempts :
        (attempts[i].client # None
            /\ ApprovalOf(i).time <= attempts[i].expiry_time
            /\ attempts[i].time > attempts[i].expiry_time)
        => /\ attempts[i].placed = NoSymbol
           /\ Cardinality(Executions(attempts[i].proposal_id, "expired")) = 1

\* C34. A permanent gateway failure is surfaced: when the gateway refuses the
\* order of an approved proposal, or the symbol is not tradable and has no
\* fallback, Execution has emitted a trade_execution with status canceled
\* for that proposal id, holds no open position and no pending entry for it.
C34_RefusalSurfaced ==
    \A i \in DOMAIN attempts :
        (attempts[i].client # None
            /\ (attempts[i].outcome = "refused"
                   \/ attempts[i].placed = NoSymbol))
        => /\ Executions(attempts[i].proposal_id, "canceled") # {}
           /\ attempts[i].result = None

\* C35. A successful execution is announced and tracked: when Execution has
\* stored an approval and the gateway has filled its order, Execution
\* eventually emits a trade_execution with status executed for the
\* proposal's id.
C35_ExecutionAnnounced ==
    \A p \in ProposalIds :
        (\E i \in DOMAIN attempts :
            /\ attempts[i].proposal_id = p
            /\ attempts[i].outcome = "filled")
        ~> (Executions(p, "executed") # {})


\* C31. A trade_result for an execution the agent does not know changes no
\* state of the agent: Risk keeps daily_pnl, account_balance and
\* open_positions, Strategy keeps active_trades and its performance.
C31_UnknownResultDropped ==
    [][\A agent \in {"risk", "strategy"}, trade_id \in ExecutionIds,
          profit_loss \in ProfitLosses :
            (HandleTradeResult(agent, trade_id, profit_loss)
                /\ ~results'[Len(results')].known)
            => UNCHANGED <<balance, daily_pnl, open_positions, active_trades,
                           trades_count>>
      ]_vars

\* C36. Periodic agents run at most one periodic pass per interval: two
\* consecutive passes of an agent start at least update_interval apart, and
\* a call of process_cycle made when the interval has elapsed since
\* last_processed_time runs the pass.
C36_OnePassPerInterval ==
    [][\A agent \in PeriodicAgents :
          /\ (ProcessCycle(agent)
                 /\ now - last_processed_time[agent] >= update_interval)
                => Len(passes'[agent]) = Len(passes[agent]) + 1
          /\ \A i \in DOMAIN passes'[agent] :
                i > 1 => passes'[agent][i] - passes'[agent][i - 1]
                             >= update_interval
      ]_vars

=============================================================================
